---- MODULE Spec2Model ----
(***************************************************************************)
(* Multi-server coordination core of the VPN shop bot: the server pool     *)
(* (app/bot/services/server_pool.py), the per-user fan-out operations and   *)
(* the usage aggregation (app/bot/services/vpn.py), and the administrative  *)
(* server CRUD that drives the pool                                         *)
(* (app/bot/routers/admin_tools/server_handler.py).                         *)
(*                                                                         *)
(* Every handler is one atomic action: the operators below take the parts   *)
(* of the state a handler touches and return them updated, so that a        *)
(* handler calling another handler is operator application.  The outcome    *)
(* of each remote panel call (login, list inbounds, add/update/delete       *)
(* client) is an input of the action, drawn per server from FaultModes.     *)
(***************************************************************************)
EXTENDS Integers, Sequences, FiniteSets, TLC

\* ---- bounds of the model ------------------------------------------------
MaxServers == 2
MaxUsers == 1
MaxFresh == 2
MaxBytes == 1
MaxEdits == 1
MaxFleet == 3
MaxLines == 2

ServerIds == 1..MaxServers
\* a user's tg_id; the e-mail label of the user's client entries is str(tg_id)
UserIds == 1..MaxUsers

Hosts == {"h1", "h2"}
Capacities == {1, 2}
Locations == {"L1", "L2"}

VARIABLES
    _servers,     \* ServerPoolService._servers: dict id -> Connection, in insertion order
    db_servers,   \* table of Server rows, keyed by id
    db_users,     \* table of User rows, keyed by tg_id
    panel,        \* the remote panels: per server, its inbound and client entries
    db_promocodes, \* table of Promocode rows, keyed by code
    uuid_next,    \* the next value uuid.uuid4() hands out
    tasks,        \* the coroutines in flight: where each one stands, what it holds
    last          \* the last operation: its name, inputs and return value

vars == <<_servers, db_servers, db_users, db_promocodes, panel, uuid_next, tasks, last>>

\* Python's None
None == [none |-> TRUE]

\* ---- outcomes of the remote panel calls ----------------------------------
\* login: api.login(); find: inbound.get_list() inside _find_client_on_server;
\* list: inbound.get_list() elsewhere; write: client.add/update/delete
FaultModes ==
    { [login |-> TRUE,  find |-> TRUE,  list |-> TRUE,  write |-> TRUE],
      [login |-> FALSE, find |-> FALSE, list |-> FALSE, write |-> FALSE],
      [login |-> FALSE, find |-> TRUE,  list |-> TRUE,  write |-> TRUE],
      [login |-> TRUE,  find |-> FALSE, list |-> TRUE,  write |-> TRUE],
      [login |-> TRUE,  find |-> TRUE,  list |-> FALSE, write |-> TRUE],
      [login |-> TRUE,  find |-> TRUE,  list |-> TRUE,  write |-> FALSE] }

Envs == [ServerIds -> FaultModes]

AllOk == [login |-> TRUE, find |-> TRUE, list |-> TRUE, write |-> TRUE]

NoLogin == [AllOk EXCEPT !.login = FALSE]

NoFind == [AllOk EXCEPT !.find = FALSE]

NoList == [AllOk EXCEPT !.list = FALSE]

NoWrite == [AllOk EXCEPT !.write = FALSE]

\* every remote call succeeds on every server
OkEnv == [s \in ServerIds |-> AllOk]

\* environments in which only the login outcome varies
LoginEnvs == { e \in Envs : \A s \in ServerIds : e[s].find /\ e[s].list /\ e[s].write }

\* ---- the pool: dict[int, Connection] --------------------------------------
PoolIds(pool) == { pool[i].id : i \in 1..Len(pool) }

PoolIndex(pool, id) == CHOOSE i \in 1..Len(pool) : pool[i].id = id

\* self._servers.get(id)
PoolGet(pool, id) == IF id \in PoolIds(pool) THEN pool[PoolIndex(pool, id)] ELSE None

\* del self._servers[id]
PoolDel(pool, id) == SelectSeq(pool, LAMBDA c : c.id # id)

Connection(server) == [id |-> server.id, server |-> server, api |-> [host |-> server.host]]

\* the conditional write of the online flag shared by _add_server and refresh_server
PersistOnline(dbs, server) ==
    IF server.id \in DOMAIN dbs /\ dbs[server.id].online # server.online
    THEN [dbs |-> [dbs EXCEPT ![server.id].online = server.online], writes |-> 1]
    ELSE [dbs |-> dbs, writes |-> 0]

\* _add_server with the insertion moved out of the try: the connection is kept
\* whatever the login did
_add_server_keeps_failed(pool, dbs, server, env) ==
    IF server.id \notin PoolIds(pool)
    THEN LET ok == env[server.id].login
             srv == [server EXCEPT !.online = ok]
             upd == PersistOnline(dbs, srv)
         IN [pool |-> Append(pool, Connection(srv)), dbs |-> upd.dbs, server |-> srv,
             writes |-> upd.writes]
    ELSE [pool |-> pool, dbs |-> dbs, server |-> server, writes |-> 0]

_add_server(pool, dbs, server, env) ==
    IF server.id \notin PoolIds(pool)
    THEN LET ok == env[server.id].login
             srv == [server EXCEPT !.online = ok]
             pool2 == IF ok THEN Append(pool, Connection(srv)) ELSE pool
             upd == PersistOnline(dbs, srv)
         IN [pool |-> pool2, dbs |-> upd.dbs, server |-> srv, writes |-> upd.writes]
    ELSE [pool |-> pool, dbs |-> dbs, server |-> server, writes |-> 0]

\* _remove_server deleting whatever entry the dict holds first
_remove_server_first_entry(pool, server) ==
    IF server.id \in PoolIds(pool) THEN Tail(pool) ELSE pool

_remove_server(pool, server) ==
    IF server.id \in PoolIds(pool) THEN PoolDel(pool, server.id) ELSE pool

\* refresh_server is called with the pooled snapshot (conn.server), so the
\* assignment to server.online is an assignment to the pooled snapshot
\* refresh_server dropping the connection when the login fails
refresh_server_evicts_failed(pool, dbs, server, env) ==
    IF server.id \in PoolIds(pool)
    THEN LET i == PoolIndex(pool, server.id)
             ok == env[server.id].login
             pool2 == [pool EXCEPT ![i].server.online = ok]
             upd == PersistOnline(dbs, pool2[i].server)
         IN [pool |-> IF ok THEN pool2 ELSE PoolDel(pool2, server.id), dbs |-> upd.dbs,
             server |-> pool2[i].server, writes |-> upd.writes]
    ELSE _add_server(pool, dbs, server, env)

\* refresh_server changing the snapshot and leaving the row as it is
refresh_server_without_write(pool, dbs, server, env) ==
    IF server.id \in PoolIds(pool)
    THEN LET i == PoolIndex(pool, server.id)
             ok == env[server.id].login
             pool2 == [pool EXCEPT ![i].server.online = ok]
         IN [pool |-> pool2, dbs |-> dbs, server |-> pool2[i].server, writes |-> 0]
    ELSE _add_server(pool, dbs, server, env)

refresh_server(pool, dbs, server, env) ==
    IF server.id \in PoolIds(pool)
    THEN LET i == PoolIndex(pool, server.id)
             ok == env[server.id].login
             pool2 == [pool EXCEPT ![i].server.online = ok]
             upd == PersistOnline(dbs, pool2[i].server)
         IN [pool |-> pool2, dbs |-> upd.dbs, server |-> pool2[i].server,
             writes |-> upd.writes]
    ELSE _add_server(pool, dbs, server, env)

\* the fields get_connection_by_server_id compares before replacing the snapshot
SnapshotDiffers(a, b) ==
    \/ a.name # b.name
    \/ a.host # b.host
    \/ a.max_clients # b.max_clients
    \/ a.location # b.location
    \/ a.online # b.online

\* get_connection_by_server_id returning a connection built from the row instead
\* of looking the id up in the pool after _add_server
get_connection_by_server_id_lends_failed(pool, dbs, server_id, env) ==
    IF server_id \notin PoolIds(pool)
    THEN IF server_id \in DOMAIN dbs
         THEN LET Added(r) == [pool |-> r.pool, dbs |-> r.dbs,
                               conn |-> Connection(r.server), writes |-> r.writes]
              IN Added(_add_server(pool, dbs, dbs[server_id], env))
         ELSE [pool |-> pool, dbs |-> dbs, conn |-> None, writes |-> 0]
    ELSE LET i == PoolIndex(pool, server_id)
             pool2 == IF server_id \in DOMAIN dbs
                         /\ SnapshotDiffers(pool[i].server, dbs[server_id])
                      THEN [pool EXCEPT ![i].server = dbs[server_id]]
                      ELSE pool
         IN [pool |-> pool2, dbs |-> dbs, conn |-> pool2[i], writes |-> 0]

\* get_connection_by_server_id returning the pooled connection as it is
get_connection_by_server_id_stale(pool, dbs, server_id, env) ==
    IF server_id \notin PoolIds(pool)
    THEN IF server_id \in DOMAIN dbs
         THEN LET Added(r) == [pool |-> r.pool, dbs |-> r.dbs,
                               conn |-> PoolGet(r.pool, server_id), writes |-> r.writes]
              IN Added(_add_server(pool, dbs, dbs[server_id], env))
         ELSE [pool |-> pool, dbs |-> dbs, conn |-> None, writes |-> 0]
    ELSE [pool |-> pool, dbs |-> dbs, conn |-> PoolGet(pool, server_id), writes |-> 0]

get_connection_by_server_id(pool, dbs, server_id, env) ==
    IF server_id \notin PoolIds(pool)
    THEN IF server_id \in DOMAIN dbs
         THEN LET Added(r) == [pool |-> r.pool, dbs |-> r.dbs,
                               conn |-> PoolGet(r.pool, server_id), writes |-> r.writes]
              IN Added(_add_server(pool, dbs, dbs[server_id], env))
         ELSE [pool |-> pool, dbs |-> dbs, conn |-> None, writes |-> 0]
    ELSE LET i == PoolIndex(pool, server_id)
             pool2 == IF server_id \in DOMAIN dbs
                         /\ SnapshotDiffers(pool[i].server, dbs[server_id])
                      THEN [pool EXCEPT ![i].server = dbs[server_id]]
                      ELSE pool
         IN [pool |-> pool2, dbs |-> dbs, conn |-> pool2[i], writes |-> 0]

\* get_all_servers: the pooled snapshots, in the dict's order
get_all_servers(pool) == [i \in 1..Len(pool) |-> pool[i].server]

\* ---- time (app/bot/utils/time), in days ---------------------------------------
Now == 2

get_current_timestamp == Now

add_days_to_timestamp(timestamp, days) == timestamp + days

days_to_timestamp(days) == add_days_to_timestamp(get_current_timestamp, days)

Max(a, b) == IF a >= b THEN a ELSE b

\* ---- the remote panel of one server ----------------------------------------
\* inbounds: how many inbounds the panel has (0 or 1); clients: the client
\* entries of the first inbound by e-mail label.  An entry is the configuration
\* listed in inbound.settings.clients; has_stat says whether inbound.client_stats
\* lists a record for the same e-mail, whose fields are up, down, total and
\* expiry_time.  The panel creates the record with the entry.
Client(vpn_id, enable, expiry_time, limit_ip) ==
    [sub_id |-> vpn_id, enable |-> enable, expiry_time |-> expiry_time,
     limit_ip |-> limit_ip, total |-> 0]

HasClient(pnl, s, tg_id) == pnl[s].inbounds > 0 /\ tg_id \in DOMAIN pnl[s].clients

HasStat(pnl, s, tg_id) == HasClient(pnl, s, tg_id) /\ pnl[s].clients[tg_id].has_stat

\* api.client.add: the panel rejects a second entry with the same e-mail
PanelAdd(pnl, s, tg_id, client, env) ==
    IF env[s].write /\ ~HasClient(pnl, s, tg_id)
    THEN [ok |-> TRUE,
          panel |-> [pnl EXCEPT ![s].clients =
                        [u \in DOMAIN pnl[s].clients \cup {tg_id} |->
                            IF u = tg_id
                            THEN client @@ [up |-> 0, down |-> 0, has_stat |-> TRUE]
                            ELSE pnl[s].clients[u]]]]
    ELSE [ok |-> FALSE, panel |-> pnl]

\* api.client.update(client_uuid, client): replaces the configuration of the
\* entry with that uuid; its traffic counters stay
PanelUpdate(pnl, s, tg_id, client_uuid, client, env) ==
    IF env[s].write /\ HasClient(pnl, s, tg_id) /\ pnl[s].clients[tg_id].sub_id = client_uuid
    THEN [ok |-> TRUE,
          panel |-> [pnl EXCEPT ![s].clients[tg_id] =
                        client @@ [up |-> @.up, down |-> @.down,
                                   has_stat |-> @.has_stat]]]
    ELSE [ok |-> FALSE, panel |-> pnl]

\* api.client.delete(inbound_id, client_uuid)
PanelDelete(pnl, s, tg_id, client_uuid, env) ==
    IF env[s].write /\ HasClient(pnl, s, tg_id) /\ pnl[s].clients[tg_id].sub_id = client_uuid
    THEN [ok |-> TRUE,
          panel |-> [pnl EXCEPT ![s].clients =
                        [u \in DOMAIN pnl[s].clients \ {tg_id} |-> pnl[s].clients[u]]]]
    ELSE [ok |-> FALSE, panel |-> pnl]

\* ---- VPNService ----------------------------------------------------------------
\* 0 stands for None: the callers test "if not inbound_id"
get_inbound_id(pnl, s, env) ==
    IF ~env[s].list THEN 0
    ELSE IF pnl[s].inbounds > 0 THEN 1 ELSE 0

\* the matching client configuration, with the inbound it lives in; a failed
\* get_list is caught and gives None
_find_client_on_server(pnl, user, connection, env) ==
    IF ~env[connection.id].find THEN None
    ELSE IF HasClient(pnl, connection.id, user.tg_id)
         THEN [c \in {"sub_id", "enable", "expiry_time", "limit_ip", "total"} |->
                  pnl[connection.id].clients[user.tg_id][c]] @@ [inbound_id |-> 1]
         ELSE None

\* is_client_exists: the first pooled server on which the lookup hits
RECURSIVE ExistsLoop(_, _, _, _, _, _)
ExistsLoop(ids, k, pnl, user, env, acc) ==
    IF k > Len(ids) THEN acc
    ELSE LET Found(acc1, client) ==
                 IF client # None THEN [acc1 EXCEPT !.client = client]
                 ELSE ExistsLoop(ids, k + 1, pnl, user, env, acc1)
             Looked(acc1, conn) ==
                 IF conn = None THEN ExistsLoop(ids, k + 1, pnl, user, env, acc1)
                 ELSE Found(acc1, _find_client_on_server(pnl, user, conn, env))
             Got(g) == Looked([acc EXCEPT !.pool = g.pool, !.dbs = g.dbs], g.conn)
         IN Got(get_connection_by_server_id(acc.pool, acc.dbs, ids[k], env))

is_client_exists(pool, dbs, pnl, user, env) ==
    ExistsLoop([i \in 1..Len(pool) |-> pool[i].id], 1, pnl, user, env,
               [pool |-> pool, dbs |-> dbs, client |-> None])

\* AggregateStep with "=" in place of "+=" on the two counters
AggregateStep_overwrites(pnl, user, env, id, acc) ==
    LET Counted(acc1, conn) ==
            IF \/ conn = None
               \/ ~conn.server.online
               \/ ~env[id].list
               \/ ~HasStat(pnl, id, user.tg_id)
            THEN acc1
            ELSE LET stat == pnl[id].clients[user.tg_id]
                 IN [acc1 EXCEPT
                       !.total_up = stat.up,
                       !.total_down = stat.down,
                       !.found = TRUE,
                       !.traffic_total = IF acc.found THEN @ ELSE stat.total,
                       !.expiry_time = IF acc.found THEN @
                                       ELSE IF stat.expiry_time = 0 THEN -1
                                            ELSE stat.expiry_time,
                       !.max_devices = IF acc.found THEN @
                                       ELSE IF stat.limit_ip = 0 THEN -1 ELSE stat.limit_ip]
        Got(g) == Counted([acc EXCEPT !.pool = g.pool, !.dbs = g.dbs], g.conn)
    IN Got(get_connection_by_server_id(acc.pool, acc.dbs, id, env))

\* get_client_data: one iteration of the loop over the pooled servers.  acc
\* carries the pool and the server table (get_connection_by_server_id may change
\* both), the sums and the policy taken from the first server that lists a stat
\* record of the user.
AggregateStep(pnl, user, env, id, acc) ==
    LET Counted(acc1, conn) ==
            IF \/ conn = None
               \/ ~conn.server.online
               \/ ~env[id].list
               \/ ~HasStat(pnl, id, user.tg_id)
            THEN acc1
            ELSE LET stat == pnl[id].clients[user.tg_id]
                 IN [acc1 EXCEPT
                       !.total_up = @ + stat.up,
                       !.total_down = @ + stat.down,
                       !.found = TRUE,
                       !.traffic_total = IF acc.found THEN @ ELSE stat.total,
                       !.expiry_time = IF acc.found THEN @
                                       ELSE IF stat.expiry_time = 0 THEN -1
                                            ELSE stat.expiry_time,
                       !.max_devices = IF acc.found THEN @
                                       ELSE IF stat.limit_ip = 0 THEN -1 ELSE stat.limit_ip]
        Got(g) == Counted([acc EXCEPT !.pool = g.pool, !.dbs = g.dbs], g.conn)
    IN Got(get_connection_by_server_id(acc.pool, acc.dbs, id, env))

RECURSIVE AggregateLoop(_, _, _, _, _, _)
AggregateLoop(ids, k, pnl, user, env, acc) ==
    IF k > Len(ids) THEN acc
    ELSE AggregateLoop(ids, k + 1, pnl, user, env, AggregateStep(pnl, user, env, ids[k], acc))

\* ClientData without the floor of the remaining traffic at 0
ClientData_unclamped(ids, acc) ==
    LET traffic_used == acc.total_up + acc.total_down
        unlimited == acc.traffic_total <= 0
    IN IF ids = <<>> \/ ~acc.found THEN None
       ELSE [max_devices |-> acc.max_devices,
             traffic_total |-> IF unlimited THEN -1 ELSE acc.traffic_total,
             traffic_remaining |-> IF unlimited THEN -1
                                   ELSE acc.traffic_total - traffic_used,
             traffic_used |-> traffic_used,
             traffic_up |-> acc.total_up,
             traffic_down |-> acc.total_down,
             expiry_timestamp |-> acc.expiry_time]

\* the value get_client_data builds from the sums, None when no server had the user
ClientData(ids, acc) ==
    LET traffic_used == acc.total_up + acc.total_down
        unlimited == acc.traffic_total <= 0
    IN IF ids = <<>> \/ ~acc.found THEN None
       ELSE [max_devices |-> acc.max_devices,
             traffic_total |-> IF unlimited THEN -1 ELSE acc.traffic_total,
             traffic_remaining |-> IF unlimited THEN -1
                                   ELSE Max(acc.traffic_total - traffic_used, 0),
             traffic_used |-> traffic_used,
             traffic_up |-> acc.total_up,
             traffic_down |-> acc.total_down,
             expiry_timestamp |-> acc.expiry_time]

\* the accumulators of get_client_data before the loop
NoData(pool, dbs) ==
    [pool |-> pool, dbs |-> dbs, found |-> FALSE, total_up |-> 0, total_down |-> 0,
     traffic_total |-> 0, expiry_time |-> 0, max_devices |-> 0]

\* get_client_data whose final test is "if not traffic_used" instead of
\* "if max_devices is None"
get_client_data_absent_without_usage(pool, dbs, pnl, user, env) ==
    LET ids == [i \in 1..Len(pool) |-> pool[i].id]
        Result(acc) == [pool |-> acc.pool, dbs |-> acc.dbs,
                        data |-> IF acc.total_up + acc.total_down = 0 THEN None
                                 ELSE ClientData(ids, acc)]
    IN Result(AggregateLoop(ids, 1, pnl, user, env, NoData(pool, dbs)))

get_client_data(pool, dbs, pnl, user, env) ==
    LET ids == [i \in 1..Len(pool) |-> pool[i].id]
        Result(acc) == [pool |-> acc.pool, dbs |-> acc.dbs, data |-> ClientData(ids, acc)]
    IN Result(AggregateLoop(ids, 1, pnl, user, env, NoData(pool, dbs)))

\* update_payload_func that extends from the current time whatever the entry says
update_payload_func_extends_from_now(kwargs, user, client) ==
    LET c1 == IF "devices" \in DOMAIN kwargs
              THEN [client EXCEPT !.limit_ip = IF kwargs.devices >= 0 THEN kwargs.devices ELSE 0]
              ELSE client
        c2 == IF "duration" \in DOMAIN kwargs
              THEN IF kwargs.duration = 0 THEN [c1 EXCEPT !.expiry_time = 0]
                   ELSE IF kwargs.duration > 0
                        THEN [c1 EXCEPT !.expiry_time =
                                 add_days_to_timestamp(get_current_timestamp, kwargs.duration)]
                        ELSE c1
              ELSE c1
        c3 == IF "enable" \in DOMAIN kwargs THEN [c2 EXCEPT !.enable = kwargs.enable] ELSE c2
    IN [c3 EXCEPT !.sub_id = user.vpn_id]

\* update_client.update_payload_func: kwargs holds the keyword arguments given
update_payload_func(kwargs, user, client) ==
    LET c1 == IF "devices" \in DOMAIN kwargs
              THEN [client EXCEPT !.limit_ip = IF kwargs.devices >= 0 THEN kwargs.devices ELSE 0]
              ELSE client
        current_time == get_current_timestamp
        base_expiry == IF c1.expiry_time > 0 THEN c1.expiry_time ELSE current_time
        expiry_to_use == IF "replace_duration" \in DOMAIN kwargs /\ kwargs.replace_duration
                         THEN current_time ELSE Max(base_expiry, current_time)
        c2 == IF "duration" \in DOMAIN kwargs
              THEN IF kwargs.duration = 0 THEN [c1 EXCEPT !.expiry_time = 0]
                   ELSE IF kwargs.duration > 0
                        THEN [c1 EXCEPT !.expiry_time =
                                 add_days_to_timestamp(expiry_to_use, kwargs.duration)]
                        ELSE c1
              ELSE c1
        c3 == IF "enable" \in DOMAIN kwargs THEN [c2 EXCEPT !.enable = kwargs.enable] ELSE c2
    IN [c3 EXCEPT !.sub_id = user.vpn_id]

\* the configuration part of a found client, as passed back to the panel
ConfigOf(client) ==
    [c \in {"sub_id", "enable", "expiry_time", "limit_ip", "total"} |-> client[c]]

\* FanOutStep without the raise of "No inbound ID found": a server without an
\* inbound is counted as a success
FanOutStep_without_raise(pnl, user, connection, action, kwargs, env) ==
    LET s == connection.id
        client_exists == _find_client_on_server(pnl, user, connection, env)
        inbound_id == get_inbound_id(pnl, s, env)
    IN IF action = "delete"
       THEN IF client_exists # None
            THEN PanelDelete(pnl, s, user.tg_id, client_exists.sub_id, env)
            ELSE [ok |-> TRUE, panel |-> pnl]
       ELSE LET settings == IF action = "create" THEN kwargs.client_settings
                            ELSE update_payload_func(kwargs, user,
                                     IF client_exists # None THEN ConfigOf(client_exists)
                                     ELSE Client(0, TRUE, 0, 0))
            IN IF client_exists # None
               THEN PanelUpdate(pnl, s, user.tg_id, client_exists.sub_id, settings, env)
               ELSE IF inbound_id = 0 THEN [ok |-> TRUE, panel |-> pnl]
                    ELSE PanelAdd(pnl, s, user.tg_id, settings, env)

\* FanOutStep whose update leaves a server without the entry alone
FanOutStep_update_skips_absent(pnl, user, connection, action, kwargs, env) ==
    LET s == connection.id
        client_exists == _find_client_on_server(pnl, user, connection, env)
        inbound_id == get_inbound_id(pnl, s, env)
        failed == [ok |-> FALSE, panel |-> pnl]
    IN CASE action = "create" ->
              IF client_exists # None
              THEN PanelUpdate(pnl, s, user.tg_id, client_exists.sub_id,
                               kwargs.client_settings, env)
              ELSE IF inbound_id = 0 THEN failed
                   ELSE PanelAdd(pnl, s, user.tg_id, kwargs.client_settings, env)
         [] action = "update" ->
              IF client_exists # None
              THEN PanelUpdate(pnl, s, user.tg_id, client_exists.sub_id,
                               update_payload_func(kwargs, user, ConfigOf(client_exists)), env)
              ELSE [ok |-> TRUE, panel |-> pnl]
         [] action = "delete" ->
              IF client_exists # None
              THEN PanelDelete(pnl, s, user.tg_id, client_exists.sub_id, env)
              ELSE [ok |-> TRUE, panel |-> pnl]
         [] OTHER -> [ok |-> TRUE, panel |-> pnl]

\* one iteration of the loop of _perform_action_on_all_servers, inside its try
FanOutStep(pnl, user, connection, action, kwargs, env) ==
    LET s == connection.id
        client_exists == _find_client_on_server(pnl, user, connection, env)
        inbound_id == get_inbound_id(pnl, s, env)
        failed == [ok |-> FALSE, panel |-> pnl]
    IN CASE action = "create" ->
              IF client_exists # None
              THEN PanelUpdate(pnl, s, user.tg_id, client_exists.sub_id,
                               kwargs.client_settings, env)
              ELSE IF inbound_id = 0 THEN failed
                   ELSE PanelAdd(pnl, s, user.tg_id, kwargs.client_settings, env)
         [] action = "update" ->
              IF client_exists # None
              THEN PanelUpdate(pnl, s, user.tg_id, client_exists.sub_id,
                               update_payload_func(kwargs, user, ConfigOf(client_exists)), env)
              ELSE IF inbound_id = 0 THEN failed
                   ELSE PanelAdd(pnl, s, user.tg_id,
                                 update_payload_func(kwargs, user, Client(0, TRUE, 0, 0)), env)
         [] action = "delete" ->
              IF client_exists # None
              THEN PanelDelete(pnl, s, user.tg_id, client_exists.sub_id, env)
              ELSE [ok |-> TRUE, panel |-> pnl]
         [] OTHER -> [ok |-> TRUE, panel |-> pnl]

\* the loop remembering the last server that succeeded instead of the first
RECURSIVE FanOutLoop_last_success(_, _, _, _, _, _, _)
FanOutLoop_last_success(ids, k, user, action, kwargs, env, acc) ==
    IF k > Len(ids) THEN acc
    ELSE LET Counted(acc1, step) ==
                 IF step.ok
                 THEN [acc1 EXCEPT
                         !.panel = step.panel,
                         !.successful_ops = @ + 1,
                         !.succeeded = @ \cup {ids[k]},
                         !.attempted = @ \cup {ids[k]},
                         !.first_success_server_id = ids[k]]
                 ELSE [acc1 EXCEPT !.attempted = @ \cup {ids[k]}]
             Tried(acc1, conn) ==
                 IF conn = None THEN acc1
                 ELSE Counted(acc1, FanOutStep(acc.panel, user, conn, action, kwargs, env))
             Got(g) == Tried([acc EXCEPT !.pool = g.pool, !.dbs = g.dbs], g.conn)
         IN FanOutLoop_last_success(ids, k + 1, user, action, kwargs, env,
                       Got(get_connection_by_server_id(acc.pool, acc.dbs, ids[k], env)))

RECURSIVE FanOutLoop(_, _, _, _, _, _, _)
FanOutLoop(ids, k, user, action, kwargs, env, acc) ==
    IF k > Len(ids) THEN acc
    ELSE LET Counted(acc1, step) ==
                 IF step.ok
                 THEN [acc1 EXCEPT
                         !.panel = step.panel,
                         !.successful_ops = @ + 1,
                         !.succeeded = @ \cup {ids[k]},
                         !.attempted = @ \cup {ids[k]},
                         !.first_success_server_id = IF @ = 0 THEN ids[k] ELSE @]
                 ELSE [acc1 EXCEPT !.attempted = @ \cup {ids[k]}]
             Tried(acc1, conn) ==
                 IF conn = None THEN acc1
                 ELSE Counted(acc1, FanOutStep(acc.panel, user, conn, action, kwargs, env))
             Got(g) == Tried([acc EXCEPT !.pool = g.pool, !.dbs = g.dbs], g.conn)
         IN FanOutLoop(ids, k + 1, user, action, kwargs, env,
                       Got(get_connection_by_server_id(acc.pool, acc.dbs, ids[k], env)))

\* returns (successful_ops, first_success_server_id); 0 stands for None.
\* succeeded and attempted record the servers whose step succeeded / was tried
_perform_action_on_all_servers(pool, dbs, pnl, user, action, kwargs, env) ==
    FanOutLoop([i \in 1..Len(pool) |-> pool[i].id], 1, user, action, kwargs, env,
               [pool |-> pool, dbs |-> dbs, panel |-> pnl, successful_ops |-> 0,
                first_success_server_id |-> 0, succeeded |-> {}, attempted |-> {}])

\* User.update(session, tg_id, ...): changes the row when there is one
UserUpdate(users, tg_id, server_id, vpn_id) ==
    IF tg_id \in DOMAIN users
    THEN [users EXCEPT ![tg_id] = [tg_id |-> tg_id, server_id |-> server_id, vpn_id |-> vpn_id]]
    ELSE users

\* User.create / User.update of create_client: the upsert of the user row
UserUpsert(users, tg_id, server_id, vpn_id) ==
    [u \in DOMAIN users \cup {tg_id} |->
        IF u = tg_id THEN [tg_id |-> tg_id, server_id |-> server_id, vpn_id |-> vpn_id]
        ELSE users[u]]

\* create_client; temp_vpn_id is the uuid4 drawn, requery the outcome of the
\* list-inbounds call that re-reads the client from the first successful server
create_client(pool, dbs, users, pnl, user, devices, duration, temp_vpn_id, env, requery) ==
    LET client_settings == Client(temp_vpn_id, TRUE,
                                  IF duration > 0 THEN days_to_timestamp(duration) ELSE 0,
                                  devices)
        env2 == [s \in ServerIds |-> [env[s] EXCEPT !.find = requery]]
        Base(f, g) == [pool |-> g.pool, dbs |-> g.dbs, users |-> users, panel |-> f.panel,
                       succeeded |-> f.succeeded, attempted |-> f.attempted,
                       first |-> f.first_success_server_id, user |-> None]
        Stored(f, g, users2) == [Base(f, g) EXCEPT !.users = users2,
                                                  !.user = users2[user.tg_id]]
        Read(f, g, created_client) ==
            IF created_client = None THEN Base(f, g)
            ELSE Stored(f, g, UserUpsert(users, user.tg_id, f.first_success_server_id,
                                         created_client.sub_id))
        Requeried(f, g) ==
            IF g.conn = None THEN Base(f, g)
            ELSE Read(f, g, _find_client_on_server(f.panel, user, g.conn, env2))
        FannedOut(f) ==
            IF f.successful_ops > 0
            THEN Requeried(f, get_connection_by_server_id(f.pool, f.dbs,
                                                          f.first_success_server_id, env))
            ELSE Base(f, f)
    IN FannedOut(_perform_action_on_all_servers(pool, dbs, pnl, user, "create",
                                                [client_settings |-> client_settings], env))

update_client(pool, dbs, pnl, user, kwargs, env) ==
    LET Done(f) == [pool |-> f.pool, dbs |-> f.dbs, panel |-> f.panel,
                    succeeded |-> f.succeeded, attempted |-> f.attempted,
                    ok |-> f.successful_ops > 0]
    IN Done(_perform_action_on_all_servers(pool, dbs, pnl, user, "update", kwargs, env))

\* delete_client that clears the identifier instead of replacing it
delete_client_clears_vpn_id(pool, dbs, users, pnl, user, new_vpn_id, env) ==
    LET Done(f) == [pool |-> f.pool, dbs |-> f.dbs, panel |-> f.panel,
                    succeeded |-> f.succeeded, attempted |-> f.attempted,
                    users |-> IF f.successful_ops > 0
                              THEN UserUpdate(users, user.tg_id, 0, 0)
                              ELSE users,
                    ok |-> f.successful_ops > 0]
    IN Done(_perform_action_on_all_servers(pool, dbs, pnl, user, "delete", <<>>, env))

delete_client(pool, dbs, users, pnl, user, new_vpn_id, env) ==
    LET Done(f) == [pool |-> f.pool, dbs |-> f.dbs, panel |-> f.panel,
                    succeeded |-> f.succeeded, attempted |-> f.attempted,
                    users |-> IF f.successful_ops > 0
                              THEN UserUpdate(users, user.tg_id, 0, new_vpn_id)
                              ELSE users,
                    ok |-> f.successful_ops > 0]
    IN Done(_perform_action_on_all_servers(pool, dbs, pnl, user, "delete", <<>>, env))

\* ensure_client_exists_on_server that looks the client up and never creates it
ensure_client_exists_on_server_lookup_only(pool, dbs, pnl, user, server_id, env) ==
    LET Connected(g) ==
            [pool |-> g.pool, dbs |-> g.dbs, panel |-> pnl, adds |-> 0,
             ok |-> IF g.conn = None THEN FALSE
                    ELSE _find_client_on_server(pnl, user, g.conn, env) # None]
    IN Connected(get_connection_by_server_id(pool, dbs, server_id, env))

\* ensure_client_exists_on_server without the lookup that makes it a no-op
ensure_client_exists_on_server_adds_without_lookup(pool, dbs, pnl, user, server_id, env) ==
    LET Result(r, ok, pnl2, adds) ==
            [pool |-> r.pool, dbs |-> r.dbs, panel |-> pnl2, ok |-> ok, adds |-> adds]
        Added(d, a) == Result(d, a.ok, a.panel, 1)
        Created(d) ==
            LET client_data == d.data
                devices_for_creation == client_data.max_devices
                expiry_for_creation == IF client_data.expiry_timestamp = -1 THEN 0
                                       ELSE client_data.expiry_timestamp
                is_enabled == \/ expiry_for_creation = 0
                              \/ expiry_for_creation > get_current_timestamp
                client_settings == Client(user.vpn_id, is_enabled, expiry_for_creation,
                                          devices_for_creation)
                inbound_id == get_inbound_id(pnl, server_id, env)
            IN IF client_data = None \/ user.vpn_id = 0 \/ inbound_id = 0
               THEN Result(d, FALSE, pnl, 0)
               ELSE Added(d, PanelAdd(pnl, server_id, user.tg_id, client_settings, env))
        Connected(g) ==
            IF g.conn = None THEN Result(g, FALSE, pnl, 0)
            ELSE Created(get_client_data(g.pool, g.dbs, pnl, user, env))
    IN Connected(get_connection_by_server_id(pool, dbs, server_id, env))

\* ensure_client_exists_on_server(user, server_id, session)
ensure_client_exists_on_server(pool, dbs, pnl, user, server_id, env) ==
    LET Result(r, ok, pnl2, adds) ==
            [pool |-> r.pool, dbs |-> r.dbs, panel |-> pnl2, ok |-> ok, adds |-> adds]
        Added(d, a) == Result(d, a.ok, a.panel, 1)
        Created(d) ==
            LET client_data == d.data
                devices_for_creation == client_data.max_devices
                expiry_for_creation == IF client_data.expiry_timestamp = -1 THEN 0
                                       ELSE client_data.expiry_timestamp
                is_enabled == \/ expiry_for_creation = 0
                              \/ expiry_for_creation > get_current_timestamp
                client_settings == Client(user.vpn_id, is_enabled, expiry_for_creation,
                                          devices_for_creation)
                inbound_id == get_inbound_id(pnl, server_id, env)
            IN IF client_data = None \/ user.vpn_id = 0 \/ inbound_id = 0
               THEN Result(d, FALSE, pnl, 0)
               ELSE Added(d, PanelAdd(pnl, server_id, user.tg_id, client_settings, env))
        Connected(g) ==
            IF g.conn = None THEN Result(g, FALSE, pnl, 0)
            ELSE IF _find_client_on_server(pnl, user, g.conn, env) # None
                 THEN Result(g, TRUE, pnl, 0)
                 ELSE Created(get_client_data(g.pool, g.dbs, pnl, user, env))
    IN Connected(get_connection_by_server_id(pool, dbs, server_id, env))

\* ---- sync_servers ----------------------------------------------------------------
\* the iteration order of a Python set is not specified: order is the order in
\* which this pass happens to iterate ids_to_add and newly_added_server_ids
Orders == { o \in [1..MaxServers -> ServerIds] : \A i, j \in 1..MaxServers : o[i] = o[j] => i = j }

InOrder(order, ids) == SelectSeq(order, LAMBDA s : s \in ids)

\* "update the attributes of the existing object": the four core fields are
\* copied from the row, online is left as it is in the pool
\* CopyCore without the assignment of location
CopyCore_without_location(snapshot, row) ==
    [snapshot EXCEPT !.name = row.name, !.host = row.host,
                     !.max_clients = row.max_clients]

CopyCore(snapshot, row) ==
    [snapshot EXCEPT !.name = row.name, !.host = row.host,
                     !.max_clients = row.max_clients, !.location = row.location]

RECURSIVE SyncRemoveLoop(_, _, _)
SyncRemoveLoop(ids, k, pool) ==
    IF k > Len(ids) THEN pool
    ELSE SyncRemoveLoop(ids, k + 1,
             IF ids[k] \in PoolIds(pool)
             THEN _remove_server(pool, PoolGet(pool, ids[k]).server)
             ELSE pool)

\* the loop over ids_to_refresh passing over the snapshots that are offline
RECURSIVE SyncRefreshLoop_skips_offline(_, _, _, _, _)
SyncRefreshLoop_skips_offline(ids, k, db_server_map, env, acc) ==
    IF k > Len(ids) THEN acc
    ELSE IF ids[k] \notin PoolIds(acc.pool) \/ ~PoolGet(acc.pool, ids[k]).server.online
         THEN SyncRefreshLoop_skips_offline(ids, k + 1, db_server_map, env, acc)
         ELSE LET i == PoolIndex(acc.pool, ids[k])
                  pool1 == [acc.pool EXCEPT ![i].server = CopyCore(@, db_server_map[ids[k]])]
                  Refreshed(r) == [acc EXCEPT !.pool = r.pool, !.dbs = r.dbs,
                                              !.writes = @ + r.writes]
              IN SyncRefreshLoop_skips_offline(ids, k + 1, db_server_map, env,
                     Refreshed(refresh_server(pool1, acc.dbs, pool1[i].server, env)))

RECURSIVE SyncRefreshLoop(_, _, _, _, _)
SyncRefreshLoop(ids, k, db_server_map, env, acc) ==
    IF k > Len(ids) THEN acc
    ELSE IF ids[k] \notin PoolIds(acc.pool)
         THEN SyncRefreshLoop(ids, k + 1, db_server_map, env, acc)
         ELSE LET i == PoolIndex(acc.pool, ids[k])
                  pool1 == [acc.pool EXCEPT ![i].server = CopyCore(@, db_server_map[ids[k]])]
                  Refreshed(r) == [acc EXCEPT !.pool = r.pool, !.dbs = r.dbs,
                                              !.writes = @ + r.writes]
              IN SyncRefreshLoop(ids, k + 1, db_server_map, env,
                     Refreshed(refresh_server(pool1, acc.dbs, pool1[i].server, env)))

\* the loop over ids_to_add leaving after its first iteration
SyncAddLoop_first_only(ids, k, db_server_map, env, acc) ==
    IF k > Len(ids) \/ k > 1 THEN acc
    ELSE LET Online(conn) == conn # None /\ conn.server.online
             Added(r) ==
                 [acc EXCEPT !.pool = r.pool, !.dbs = r.dbs, !.writes = @ + r.writes,
                             !.newly_added_server_ids =
                                 IF Online(PoolGet(r.pool, ids[k])) THEN @ \cup {ids[k]}
                                 ELSE @]
         IN Added(_add_server(acc.pool, acc.dbs, db_server_map[ids[k]], env))

RECURSIVE SyncAddLoop(_, _, _, _, _)
SyncAddLoop(ids, k, db_server_map, env, acc) ==
    IF k > Len(ids) THEN acc
    ELSE LET Online(conn) == conn # None /\ conn.server.online
             Added(r) ==
                 [acc EXCEPT !.pool = r.pool, !.dbs = r.dbs, !.writes = @ + r.writes,
                             !.newly_added_server_ids =
                                 IF Online(PoolGet(r.pool, ids[k])) THEN @ \cup {ids[k]}
                                 ELSE @]
         IN SyncAddLoop(ids, k + 1, db_server_map, env,
                        Added(_add_server(acc.pool, acc.dbs, db_server_map[ids[k]], env)))

\* the loop over the new servers leaving at the first server that fails
RECURSIVE SyncEnsureLoop_stops_at_failure(_, _, _, _, _)
SyncEnsureLoop_stops_at_failure(ids, k, user, env, acc) ==
    IF k > Len(ids) \/ acc.failed_count > 0 THEN acc
    ELSE LET Ensured(e) ==
                 [acc EXCEPT !.pool = e.pool, !.dbs = e.dbs, !.panel = e.panel,
                             !.processed_count = IF e.ok THEN @ + 1 ELSE @,
                             !.failed_count = IF e.ok THEN @ ELSE @ + 1]
         IN SyncEnsureLoop_stops_at_failure(ids, k + 1, user, env,
                Ensured(ensure_client_exists_on_server(acc.pool, acc.dbs, acc.panel, user,
                                                       ids[k], env)))

RECURSIVE SyncEnsureLoop(_, _, _, _, _)
SyncEnsureLoop(ids, k, user, env, acc) ==
    IF k > Len(ids) THEN acc
    ELSE LET Ensured(e) ==
                 [acc EXCEPT !.pool = e.pool, !.dbs = e.dbs, !.panel = e.panel,
                             !.processed_count = IF e.ok THEN @ + 1 ELSE @,
                             !.failed_count = IF e.ok THEN @ ELSE @ + 1]
         IN SyncEnsureLoop(ids, k + 1, user, env,
                Ensured(ensure_client_exists_on_server(acc.pool, acc.dbs, acc.panel, user,
                                                       ids[k], env)))

RECURSIVE SyncUserLoop(_, _, _, _, _)
SyncUserLoop(users_with_vpn_id, k, new_ids, env, acc) ==
    IF k > Len(users_with_vpn_id) THEN acc
    ELSE LET user == users_with_vpn_id[k]
             Fetched(acc1, user_client_data) ==
                 IF user_client_data = None
                 THEN [acc1 EXCEPT !.skipped_count = @ + 1]
                 ELSE SyncEnsureLoop(new_ids, 1, user, env, acc1)
             Got(d) == Fetched([acc EXCEPT !.pool = d.pool, !.dbs = d.dbs], d.data)
         IN SyncUserLoop(users_with_vpn_id, k + 1, new_ids, env,
                Got(get_client_data(acc.pool, acc.dbs, acc.panel, user, env)))

\* the rows of select(User) that have a vpn_id, in key order
RECURSIVE UsersWithVpnId(_, _)
UsersWithVpnId(users, k) ==
    IF \A j \in DOMAIN users : j < k THEN <<>>
    ELSE IF k \in DOMAIN users /\ users[k].vpn_id # 0
         THEN <<users[k]>> \o UsersWithVpnId(users, k + 1)
         ELSE UsersWithVpnId(users, k + 1)

sync_servers(pool, dbs, users, pnl, env, order) ==
    LET start == [pool |-> pool, dbs |-> dbs, panel |-> pnl, writes |-> 0,
                  newly_added_server_ids |-> {}, processed_count |-> 0,
                  failed_count |-> 0, skipped_count |-> 0]
        db_server_map == dbs
        current_pool_ids == PoolIds(pool)
        db_ids == DOMAIN dbs
        ids_to_remove == current_pool_ids \ db_ids
        ids_to_refresh == current_pool_ids \cap db_ids
        ids_to_add == db_ids \ current_pool_ids
        Removed(pool1) == [start EXCEPT !.pool = pool1]
        Refreshed(removed) ==
            SyncRefreshLoop(InOrder(order, ids_to_refresh), 1, db_server_map, env, removed)
        Added(refreshed) ==
            SyncAddLoop(InOrder(order, ids_to_add), 1, db_server_map, env, refreshed)
        Replayed(added) ==
            IF added.newly_added_server_ids # {}
            THEN SyncUserLoop(UsersWithVpnId(users, 1), 1,
                              InOrder(order, added.newly_added_server_ids), env, added)
            ELSE added
    IN IF db_ids = {} /\ pool = <<>> THEN start
       ELSE Replayed(Added(Refreshed(Removed(
                SyncRemoveLoop(InOrder(order, ids_to_remove), 1, pool)))))

\* ---- the state machine -------------------------------------------------------------
Names == 1..(MaxServers + 1)

ServerRow(id, name, host, max_clients, location, online) ==
    [id |-> id, name |-> name, host |-> host, max_clients |-> max_clients,
     location |-> location, online |-> online]

\* Server.create: a new row is offline until a login succeeds
NewRow(id, name) == ServerRow(id, name, "h1", 1, "L1", FALSE)

NoUsers == [u \in {} |-> None]

NoPromocodes == [c \in {} |-> None]

\* no coroutine is in flight
NoTasks == <<>>

EmptyPanel == [s \in ServerIds |-> [inbounds |-> 1, clients |-> [u \in {} |-> None]]]

\* after construction the pool is empty; the tables hold what earlier runs left
InitPool ==
    /\ _servers = <<>>
    /\ db_servers \in { [s \in ids |-> NewRow(s, s)] : ids \in SUBSET ServerIds }
    /\ db_users = NoUsers
    /\ panel = EmptyPanel
    /\ db_promocodes = NoPromocodes
    /\ tasks = NoTasks
    /\ uuid_next = MaxUsers + 1
    /\ last = [op |-> "init"]

LoginSet(env) == { s \in ServerIds : env[s].login }

\* the Server object a caller of the pool holds for id: the pooled snapshot, else
\* the row, else an object whose row has been deleted since it was loaded
ServerObject(id) ==
    IF id \in PoolIds(_servers) THEN PoolGet(_servers, id).server
    ELSE IF id \in DOMAIN db_servers THEN db_servers[id]
         ELSE NewRow(id, id)

AddServer(id, env) ==
    \E r \in {_add_server(_servers, db_servers, ServerObject(id), env)} :
       /\ _servers' = r.pool
       /\ db_servers' = r.dbs
       /\ last' = [op |-> "add", id |-> id, ok |-> env[id].login,
                   was_pooled |-> id \in PoolIds(_servers),
                   stored |-> IF id \in DOMAIN db_servers
                              THEN <<db_servers[id].online>> ELSE <<>>,
                   online |-> r.server.online, writes |-> r.writes]
       /\ UNCHANGED <<db_users, db_promocodes, tasks, panel, uuid_next>>

RemoveServer(id) ==
    /\ _servers' = _remove_server(_servers, ServerObject(id))
    /\ last' = [op |-> "remove", id |-> id, pool_before |-> _servers,
                rows_before |-> db_servers]
    /\ UNCHANGED <<db_servers, db_users, db_promocodes, tasks, panel, uuid_next>>

RefreshServer(id, env) ==
    \E r \in {refresh_server(_servers, db_servers, ServerObject(id), env)} :
       /\ _servers' = r.pool
       /\ db_servers' = r.dbs
       /\ last' = [op |-> "refresh", id |-> id, ok |-> env[id].login,
                   was_pooled |-> id \in PoolIds(_servers),
                   stored |-> IF id \in DOMAIN db_servers
                              THEN <<db_servers[id].online>> ELSE <<>>,
                   online |-> r.server.online, writes |-> r.writes]
       /\ UNCHANGED <<db_users, db_promocodes, tasks, panel, uuid_next>>

GetConnectionById(id, env) ==
    \E r \in {get_connection_by_server_id(_servers, db_servers, id, env)} :
       /\ _servers' = r.pool
       /\ db_servers' = r.dbs
       /\ last' = [op |-> "get_connection_by_server_id", id |-> id, ok |-> env[id].login,
                   was_pooled |-> id \in PoolIds(_servers), pool_before |-> _servers,
                   conn |-> r.conn]
       /\ UNCHANGED <<db_users, db_promocodes, tasks, panel, uuid_next>>

\* what a sync pass leaves in last: the login outcomes it met, the ids pooled and
\* the rows present when it started, and the ids it added online
SyncRecord(op, pool, dbs, env, r) ==
    [op |-> op, logins |-> LoginSet(env), pooled_before |-> PoolIds(pool),
     stale |-> { s \in PoolIds(pool) \cap DOMAIN dbs :
                   CopyCore(PoolGet(pool, s).server, dbs[s]) # PoolGet(pool, s).server },
     newly_added |-> r.newly_added_server_ids]

\* the pass itself, on the tables as the caller left them
SyncPass(op, dbs, env, order) ==
    \E r \in {sync_servers(_servers, dbs, db_users, panel, env, order)} :
       /\ _servers' = r.pool
       /\ db_servers' = r.dbs
       /\ panel' = r.panel
       /\ last' = SyncRecord(op, _servers, dbs, env, r)
       /\ UNCHANGED <<db_users, db_promocodes, tasks, uuid_next>>

\* callback_sync_servers
SyncServers(env, order) == SyncPass("sync", db_servers, env, order)

\* callback_add_confirmation: Server.create, then sync_servers
callback_add_confirmation(id, name, env, order) ==
    /\ id \notin DOMAIN db_servers
    /\ \A s \in DOMAIN db_servers : db_servers[s].name # name
    /\ SyncPass("sync",
                [s \in DOMAIN db_servers \cup {id} |->
                    IF s = id THEN NewRow(id, name) ELSE db_servers[s]],
                env, order)

\* handle_server_edit: setattr(server_to_edit, field, value), commit, sync_servers.
\* message_edit_name refuses a name that another row has.
handle_server_edit(id, field_to_update, new_value, env, order) ==
    /\ id \in DOMAIN db_servers
    /\ field_to_update = "name" => \A s \in DOMAIN db_servers : db_servers[s].name # new_value
    /\ SyncPass("sync", [db_servers EXCEPT ![id][field_to_update] = new_value], env, order)

\* callback_delete_server: Server.delete, then sync_servers
callback_delete_server(id, env, order) ==
    /\ id \in DOMAIN db_servers
    /\ SyncPass("sync", [s \in DOMAIN db_servers \ {id} |-> db_servers[s]], env, order)

\* how many fields of the rows differ from what Server.create was given
Edited(dbs) ==
    Cardinality({ <<s, f>> \in (DOMAIN dbs) \X {"name", "host", "max_clients", "location"} :
                    dbs[s][f] # NewRow(s, s)[f] })

EditValues ==
    ({"name"} \X Names) \cup ({"host"} \X Hosts)
        \cup ({"max_clients"} \X Capacities) \cup ({"location"} \X Locations)

\* the administrator's edits, at most MaxEdits fields away from the created rows
EditServer(id, fv, env, order) ==
    /\ id \in DOMAIN db_servers
    /\ db_servers[id][fv[1]] # fv[2]
    /\ Edited([db_servers EXCEPT ![id][fv[1]] = fv[2]]) <= MaxEdits
    /\ handle_server_edit(id, fv[1], fv[2], env, order)

Next ==
    \/ \E id \in ServerIds, env \in LoginEnvs : AddServer(id, env)
    \/ \E id \in ServerIds : RemoveServer(id)
    \/ \E id \in ServerIds, env \in LoginEnvs : RefreshServer(id, env)
    \/ \E id \in ServerIds, env \in LoginEnvs : GetConnectionById(id, env)
    \/ \E env \in LoginEnvs, order \in Orders : SyncServers(env, order)
    \/ \E id \in ServerIds, env \in LoginEnvs, order \in Orders :
          callback_add_confirmation(id, id, env, order)
    \/ \E id \in ServerIds, env \in LoginEnvs, order \in Orders :
          callback_delete_server(id, env, order)

Spec == InitPool /\ [][Next]_vars

\* the pool under administrative edits of the rows
NextEdit ==
    \/ \E id \in ServerIds, fv \in EditValues, env \in LoginEnvs, order \in Orders :
          EditServer(id, fv, env, order)
    \/ \E id \in ServerIds, env \in LoginEnvs : GetConnectionById(id, env)
    \/ \E env \in LoginEnvs, order \in Orders : SyncServers(env, order)
    \/ \E id \in ServerIds, env \in LoginEnvs, order \in Orders :
          callback_add_confirmation(id, id, env, order)
    \/ \E id \in ServerIds, env \in LoginEnvs, order \in Orders :
          callback_delete_server(id, env, order)

SpecEdit == InitPool /\ [][NextEdit]_vars

\* ---- ServerPoolService.get_connection -----------------------------------------------
\* the loop over get_all_servers() of a user without a primary server: the first
\* server whose lookup returns the user's entry
RECURSIVE ConnectionLoop(_, _, _, _, _, _, _)
ConnectionLoop(servers, k, pool, dbs, pnl, user, env) ==
    IF k > Len(servers) THEN [pool |-> pool, dbs |-> dbs, conn |-> None]
    ELSE LET Looked(r) ==
                 IF r.conn # None /\ _find_client_on_server(pnl, user, r.conn, env) # None
                 THEN [pool |-> r.pool, dbs |-> r.dbs, conn |-> r.conn]
                 ELSE ConnectionLoop(servers, k + 1, r.pool, r.dbs, pnl, user, env)
         IN Looked(get_connection_by_server_id(pool, dbs, servers[k].id, env))

\* get_connection handing out the first pooled server without a lookup
get_connection_first_pooled(pool, dbs, pnl, user, env) ==
    IF user.server_id = 0
    THEN [pool |-> pool, dbs |-> dbs, conn |-> IF pool = <<>> THEN None ELSE pool[1]]
    ELSE LET Got(r) == [pool |-> r.pool, dbs |-> r.dbs, conn |-> r.conn]
         IN Got(get_connection_by_server_id(pool, dbs, user.server_id, env))

get_connection(pool, dbs, pnl, user, env) ==
    IF user.server_id = 0
    THEN ConnectionLoop(get_all_servers(pool), 1, pool, dbs, pnl, user, env)
    ELSE LET Got(r) == [pool |-> r.pool, dbs |-> r.dbs, conn |-> r.conn]
         IN Got(get_connection_by_server_id(pool, dbs, user.server_id, env))

\* ---- the fan-out operations over a fleet whose rows are fixed ------------------------
DeviceChoices == {1}

DurationChoices == {1}

\* the User object a handler holds: the row, or a user not stored yet
UserObject(u) ==
    IF u \in DOMAIN db_users THEN db_users[u]
    ELSE [tg_id |-> u, server_id |-> 0, vpn_id |-> 0]

\* the pooled servers whose snapshot says online
OnlineIds(pool) == { pool[i].id : i \in { j \in 1..Len(pool) : pool[j].server.online } }

\* every server has a row, some panels have no inbound, nobody has a client yet;
\* a registered user has the vpn_id given at registration
InitVpn ==
    /\ _servers = <<>>
    /\ db_servers = [s \in ServerIds |-> NewRow(s, s)]
    /\ db_users \in { [u \in us |-> [tg_id |-> u, server_id |-> 0, vpn_id |-> u]] :
                        us \in SUBSET UserIds }
    /\ panel \in [ServerIds -> { [inbounds |-> n, clients |-> [u \in {} |-> None]] :
                                   n \in {0, 1} }]
    /\ db_promocodes = NoPromocodes
    /\ tasks = NoTasks
    /\ uuid_next = MaxUsers + 1
    /\ last = [op |-> "init"]

FreshLeft == uuid_next <= MaxUsers + MaxFresh

CreateClient(u, devices, duration, env, requery) ==
    \E r \in {create_client(_servers, db_servers, db_users, panel, UserObject(u),
                           devices, duration, uuid_next, env, requery)} :
       /\ FreshLeft
       /\ _servers' = r.pool
       /\ db_servers' = r.dbs
       /\ db_users' = r.users
       /\ panel' = r.panel
       /\ uuid_next' = uuid_next + 1
       /\ last' = [op |-> "create", u |-> u, succeeded |-> r.succeeded,
                   attempted |-> r.attempted, online_before |-> OnlineIds(_servers),
                   first |-> r.first, user |-> r.user]
       /\ UNCHANGED <<db_promocodes, tasks>>

DeleteClient(u, env) ==
    \E r \in {delete_client(_servers, db_servers, db_users, panel, UserObject(u),
                           uuid_next, env)} :
       /\ FreshLeft
       /\ _servers' = r.pool
       /\ db_servers' = r.dbs
       /\ db_users' = r.users
       /\ panel' = r.panel
       /\ uuid_next' = uuid_next + 1
       /\ last' = [op |-> "delete", u |-> u, ok |-> r.ok, succeeded |-> r.succeeded,
                   attempted |-> r.attempted, before |-> UserObject(u),
                   hosts_before |-> { s \in ServerIds : HasClient(panel, s, u) }]
       /\ UNCHANGED <<db_promocodes, tasks>>

\* a sync pass whose remote calls may fail in every way
SyncVpn(env, order) ==
    \E r \in {sync_servers(_servers, db_servers, db_users, panel, env, order)} :
       /\ _servers' = r.pool
       /\ db_servers' = r.dbs
       /\ panel' = r.panel
       /\ last' = SyncRecord("sync", _servers, db_servers, env, r)
                     @@ [list_ok |-> { s \in ServerIds : env[s].find /\ env[s].list },
                         write_ok |-> { s \in ServerIds : env[s].write }]
       /\ UNCHANGED <<db_users, db_promocodes, tasks, uuid_next>>

\* the failures a fan-out meets: of the lookup, or of the add/update/delete call
FanOutEnvs == [ServerIds -> {AllOk, NoFind, NoWrite}]

\* the failures a pass meets: of the login, or of one kind of call of the replay
SyncEnvs == [ServerIds -> {AllOk, NoLogin, NoList, NoWrite}]

NextVpn ==
    \/ \E u \in UserIds, devices \in DeviceChoices, duration \in DurationChoices,
          env \in FanOutEnvs, requery \in BOOLEAN :
          CreateClient(u, devices, duration, env, requery)
    \/ \E u \in UserIds, env \in FanOutEnvs : DeleteClient(u, env)
    \/ \E env \in SyncEnvs, order \in Orders : SyncVpn(env, order)

SpecVpn == InitVpn /\ [][NextVpn]_vars

\* ---- the aggregation over a fleet in any condition -------------------------------------
\* the orders in which servers can have been pooled
PoolOrders ==
    UNION { { o \in [1..n -> ServerIds] : \A i, j \in 1..n : o[i] = o[j] => i = j } :
              n \in 0..MaxServers }

\* the entry of user u on a panel before any traffic, with or without a stat record
FreshEntries(u) ==
    { Client(u, TRUE, 0, 1) @@ [up |-> 0, down |-> 0, has_stat |-> h] : h \in BOOLEAN }

PanelStates ==
    { [inbounds |-> 0, clients |-> [u \in {} |-> None]] }
        \cup { [inbounds |-> 1, clients |-> c] :
                 c \in UNION { { f \in [us -> UNION { FreshEntries(u) : u \in UserIds }] :
                                   \A u \in us : f[u].sub_id = u } :
                               us \in SUBSET UserIds } }

\* the servers are pooled in some order, online or not, the rows agree with the
\* snapshots; the users have entries on some of the panels
InitAgg ==
    /\ db_servers \in { [s \in ServerIds |-> [NewRow(s, s) EXCEPT !.online = f[s]]] :
                          f \in [ServerIds -> BOOLEAN] }
    /\ _servers \in { [i \in 1..Len(o) |-> Connection(db_servers[o[i]])] : o \in PoolOrders }
    /\ db_users = [u \in UserIds |-> [tg_id |-> u, server_id |-> 0, vpn_id |-> u]]
    /\ panel \in [ServerIds -> PanelStates]
    /\ db_promocodes = NoPromocodes
    /\ tasks = NoTasks
    /\ uuid_next = MaxUsers + 1
    /\ last = [op |-> "init"]

\* the panel of server s counts one more byte of user u, up or down
Traffic(s, u, field) ==
    /\ HasStat(panel, s, u)
    /\ panel[s].clients[u][field] < MaxBytes
    /\ panel' = [panel EXCEPT ![s].clients[u][field] = @ + 1]
    /\ last' = [op |-> "traffic"]
    /\ UNCHANGED <<_servers, db_servers, db_users, db_promocodes, tasks, uuid_next>>

\* the outcomes of the list calls of one aggregation
ListEnv(list_ok) == [s \in ServerIds |-> IF s \in list_ok THEN AllOk ELSE NoList]

GetClientData(u, list_ok) ==
    \E r \in {get_client_data(_servers, db_servers, panel, UserObject(u), ListEnv(list_ok))} :
       /\ _servers' = r.pool
       /\ db_servers' = r.dbs
       /\ last' = [op |-> "get_client_data", u |-> u, list_ok |-> list_ok, data |-> r.data]
       /\ UNCHANGED <<db_users, db_promocodes, tasks, panel, uuid_next>>

\* the outcomes of the lookups of one get_connection
FindEnv(find_ok) == [s \in ServerIds |-> IF s \in find_ok THEN AllOk ELSE NoFind]

GetConnection(u, find_ok) ==
    \E r \in {get_connection(_servers, db_servers, panel, UserObject(u), FindEnv(find_ok))} :
       /\ _servers' = r.pool
       /\ db_servers' = r.dbs
       /\ last' = [op |-> "get_connection", u |-> u, find_ok |-> find_ok,
                   server_id |-> UserObject(u).server_id, pool_before |-> _servers,
                   conn |-> r.conn]
       /\ UNCHANGED <<db_users, db_promocodes, tasks, panel, uuid_next>>

NextAgg ==
    \/ \E s \in ServerIds, u \in UserIds, field \in {"up", "down"} : Traffic(s, u, field)
    \/ \E u \in UserIds, list_ok \in SUBSET ServerIds : GetClientData(u, list_ok)
    \/ \E u \in UserIds, find_ok \in SUBSET ServerIds : GetConnection(u, find_ok)

SpecAgg == InitAgg /\ [][NextAgg]_vars


\* ---- placement: the pooled servers with free slots ---------------------------------
\* Server.current_clients: the number of users whose primary server is the row
current_clients(users, s) == Cardinality({ u \in DOMAIN users : users[u].server_id = s })

\* select(Server).where(Server.id.in_(ids)), filtered by current_clients < max_clients.
\* The query has no ORDER BY: listing is the order in which it returns the rows.
ServersWithFreeSlots(ids, dbs, users, listing) ==
    SelectSeq(InOrder(listing, ids \cap DOMAIN dbs),
              LAMBDA s : current_clients(users, s) < dbs[s].max_clients)

\* sorted(servers, key=lambda s: s.current_clients)[0]: sorted is stable, so the
\* first of the servers with the least key
RECURSIVE FirstLeast(_, _, _, _)
FirstLeast(ids, k, users, best) ==
    IF k > Len(ids) THEN best
    ELSE FirstLeast(ids, k + 1, users,
                    IF current_clients(users, ids[k]) < current_clients(users, best)
                    THEN ids[k] ELSE best)

\* get_available_server without the sort: the first listed server with a free slot
get_available_server_unsorted(pool, dbs, users, listing) ==
    LET online_server_ids == OnlineIds(pool)
        servers_with_free_slots == ServersWithFreeSlots(online_server_ids, dbs, users, listing)
    IN IF online_server_ids = {} \/ servers_with_free_slots = <<>> THEN None
       ELSE dbs[servers_with_free_slots[1]]

get_available_server(pool, dbs, users, listing) ==
    LET online_server_ids == OnlineIds(pool)
        servers_with_free_slots == ServersWithFreeSlots(online_server_ids, dbs, users, listing)
    IN IF online_server_ids = {} \/ servers_with_free_slots = <<>> THEN None
       ELSE dbs[FirstLeast(servers_with_free_slots, 2, users, servers_with_free_slots[1])]

\* the pooled servers of a location whose snapshot says online
OnlineIdsIn(pool, location_name) ==
    { s \in OnlineIds(pool) : PoolGet(pool, s).server.location = location_name }

get_available_server_by_location(pool, dbs, users, location_name, listing) ==
    LET server_ids_in_location == OnlineIdsIn(pool, location_name)
        servers_with_free_slots ==
            ServersWithFreeSlots(server_ids_in_location, dbs, users, listing)
    IN IF server_ids_in_location = {} \/ servers_with_free_slots = <<>> THEN None
       ELSE dbs[FirstLeast(servers_with_free_slots, 2, users, servers_with_free_slots[1])]

\* get_available_servers: the rows of the online pooled servers with a free slot
get_available_servers(pool, dbs, users, listing) ==
    LET online_server_ids == OnlineIds(pool)
    IN IF online_server_ids = {} THEN <<>>
       ELSE [i \in 1..Len(ServersWithFreeSlots(online_server_ids, dbs, users, listing)) |->
                dbs[ServersWithFreeSlots(online_server_ids, dbs, users, listing)[i]]]

\* the servers are pooled in some order, online or not, with some capacity and
\* location, the rows agree with the snapshots; each user has a primary server or none
InitPlace ==
    /\ db_servers \in { [s \in ServerIds |->
                            [NewRow(s, s) EXCEPT !.online = f[s], !.max_clients = c[s],
                                                 !.location = l[s]]] :
                          f \in [ServerIds -> BOOLEAN], c \in [ServerIds -> Capacities],
                          l \in [ServerIds -> Locations] }
    /\ _servers \in { [i \in 1..Len(o) |-> Connection(db_servers[o[i]])] : o \in PoolOrders }
    /\ db_users \in [UserIds -> UNION { { [tg_id |-> u, server_id |-> s, vpn_id |-> u] :
                                            s \in 0..MaxServers } : u \in UserIds }]
    /\ \A u \in UserIds : db_users[u].tg_id = u
    /\ db_promocodes = NoPromocodes
    /\ tasks = NoTasks
    /\ panel = EmptyPanel
    /\ uuid_next = MaxUsers + 1
    /\ last = [op |-> "init"]

\* what a placement call leaves in last: the servers it chose among, the order in
\* which the query listed the rows, and the row it returned
GetAvailableServer(listing) ==
    /\ last' = [op |-> "get_available_server", among |-> OnlineIds(_servers),
                listing |-> listing,
                server |-> get_available_server(_servers, db_servers, db_users, listing)]
    /\ UNCHANGED <<_servers, db_servers, db_users, db_promocodes, tasks, panel, uuid_next>>

GetAvailableServerByLocation(location_name, listing) ==
    /\ last' = [op |-> "get_available_server", among |-> OnlineIdsIn(_servers, location_name),
                listing |-> listing,
                server |-> get_available_server_by_location(_servers, db_servers, db_users,
                                                            location_name, listing)]
    /\ UNCHANGED <<_servers, db_servers, db_users, db_promocodes, tasks, panel, uuid_next>>

NextPlace ==
    \/ \E listing \in Orders : GetAvailableServer(listing)
    \/ \E location_name \in Locations, listing \in Orders :
          GetAvailableServerByLocation(location_name, listing)

SpecPlace == InitPlace /\ [][NextPlace]_vars


\* ---- promocodes ------------------------------------------------------------------------
Codes == {"P1", "P2"}

\* self.config.shop.BONUS_DEVICES_COUNT
BONUS_DEVICES_COUNT == 1

\* a Promocode row; activated_user_id is 0 for NULL
PromocodeRow(code, duration, is_activated, activated_user_id) ==
    [code |-> code, duration |-> duration, is_activated |-> is_activated,
     activated_user_id |-> activated_user_id]

\* Promocode.set_activated: marks the row and returns True, unless the row is
\* missing or already activated
set_activated(promos, code, user_id) ==
    IF code \notin DOMAIN promos \/ promos[code].is_activated
    THEN [ok |-> FALSE, promos |-> promos]
    ELSE [ok |-> TRUE,
          promos |-> [promos EXCEPT ![code].is_activated = TRUE,
                                    ![code].activated_user_id = user_id]]

\* Promocode.set_deactivated: clears the mark of an activated row
set_deactivated(promos, code) ==
    IF code \notin DOMAIN promos \/ ~promos[code].is_activated
    THEN [ok |-> FALSE, promos |-> promos]
    ELSE [ok |-> TRUE,
          promos |-> [promos EXCEPT ![code].is_activated = FALSE,
                                    ![code].activated_user_id = 0]]

\* process_bonus_days: extend where the user has an entry, else create; path
\* tells which of the two ran
process_bonus_days(pool, dbs, users, pnl, user, duration, devices, temp_vpn_id, env, requery) ==
    LET Updated(r) == [pool |-> r.pool, dbs |-> r.dbs, users |-> users, panel |-> r.panel,
                       succeeded |-> r.succeeded, attempted |-> r.attempted,
                       path |-> "update", ok |-> r.ok]
        Created(r) == [pool |-> r.pool, dbs |-> r.dbs, users |-> r.users, panel |-> r.panel,
                       succeeded |-> r.succeeded, attempted |-> r.attempted,
                       path |-> "create", ok |-> r.user # None]
        Looked(e) ==
            IF e.client # None
            THEN Updated(update_client(e.pool, e.dbs, pnl, user,
                                       [duration |-> duration, replace_duration |-> FALSE], env))
            ELSE Created(create_client(e.pool, e.dbs, users, pnl, user, devices, duration,
                                       temp_vpn_id, env, requery))
    IN Looked(is_client_exists(pool, dbs, pnl, user, env))

\* what activate_promocode returns without having provisioned anything
NotProvisioned(pool, dbs, users, pnl, promos) ==
    [pool |-> pool, dbs |-> dbs, users |-> users, panel |-> pnl, promos |-> promos,
     succeeded |-> {}, attempted |-> {}, path |-> "none", activated |-> FALSE,
     success |-> FALSE, ok |-> FALSE]

\* activate_promocode going on to the provisioning whatever set_activated returned
activate_promocode_without_lock(pool, dbs, users, promos, pnl, user, promocode, temp_vpn_id, env, requery) ==
    LET Provisioned(a, b) ==
            [pool |-> b.pool, dbs |-> b.dbs, users |-> b.users, panel |-> b.panel,
             promos |-> IF b.ok THEN a.promos ELSE set_deactivated(a.promos, promocode.code).promos,
             succeeded |-> b.succeeded, attempted |-> b.attempted, path |-> b.path,
             activated |-> a.ok, success |-> b.ok, ok |-> b.ok]
        Marked(a) ==
            Provisioned(a, process_bonus_days(pool, dbs, users, pnl, user, promocode.duration,
                                              BONUS_DEVICES_COUNT, temp_vpn_id, env, requery))
    IN Marked(set_activated(promos, promocode.code, user.tg_id))

\* activate_promocode returning False after a failed provisioning without
\* calling set_deactivated
activate_promocode_without_rollback(pool, dbs, users, promos, pnl, user, promocode, temp_vpn_id, env, requery) ==
    LET Provisioned(a, b) ==
            [pool |-> b.pool, dbs |-> b.dbs, users |-> b.users, panel |-> b.panel,
             promos |-> a.promos,
             succeeded |-> b.succeeded, attempted |-> b.attempted, path |-> b.path,
             activated |-> TRUE, success |-> b.ok, ok |-> b.ok]
        Marked(a) ==
            IF ~a.ok THEN NotProvisioned(pool, dbs, users, pnl, promos)
            ELSE Provisioned(a, process_bonus_days(pool, dbs, users, pnl, user,
                                                   promocode.duration, BONUS_DEVICES_COUNT,
                                                   temp_vpn_id, env, requery))
    IN Marked(set_activated(promos, promocode.code, user.tg_id))

activate_promocode(pool, dbs, users, promos, pnl, user, promocode, temp_vpn_id, env, requery) ==
    LET Provisioned(a, b) ==
            [pool |-> b.pool, dbs |-> b.dbs, users |-> b.users, panel |-> b.panel,
             promos |-> IF b.ok THEN a.promos ELSE set_deactivated(a.promos, promocode.code).promos,
             succeeded |-> b.succeeded, attempted |-> b.attempted, path |-> b.path,
             activated |-> TRUE, success |-> b.ok, ok |-> b.ok]
        Marked(a) ==
            IF ~a.ok THEN NotProvisioned(pool, dbs, users, pnl, promos)
            ELSE Provisioned(a, process_bonus_days(pool, dbs, users, pnl, user,
                                                   promocode.duration, BONUS_DEVICES_COUNT,
                                                   temp_vpn_id, env, requery))
    IN Marked(set_activated(promos, promocode.code, user.tg_id))

\* the order of ids, for the calls that only test whether any server is listed
IdOrder == [i \in 1..MaxServers |-> i]

\* the entry of user u that an earlier purchase left on a panel
BoughtEntry(u) == Client(u, TRUE, 0, 1) @@ [up |-> 0, down |-> 0, has_stat |-> TRUE]

\* the users are registered, the servers pooled in some order, online or not;
\* a panel has no inbound, or an inbound with or without an entry of each user;
\* each promocode is unused or was redeemed by some user
InitPromo ==
    /\ db_servers \in { [s \in ServerIds |-> [NewRow(s, s) EXCEPT !.online = f[s]]] :
                          f \in [ServerIds -> BOOLEAN] }
    /\ _servers \in { [i \in 1..Len(o) |-> Connection(db_servers[o[i]])] : o \in PoolOrders }
    /\ db_users = [u \in UserIds |-> [tg_id |-> u, server_id |-> 0, vpn_id |-> u]]
    /\ db_promocodes \in [Codes -> UNION { { PromocodeRow(c, 1, FALSE, 0) }
                                             \cup { PromocodeRow(c, 1, TRUE, u) : u \in UserIds } :
                                           c \in Codes }]
    /\ \A c \in Codes : db_promocodes[c].code = c
    /\ panel \in [ServerIds ->
                    { [inbounds |-> 0, clients |-> [u \in {} |-> None]] }
                      \cup { [inbounds |-> 1, clients |-> [u \in us |-> BoughtEntry(u)]] :
                               us \in SUBSET UserIds }]
    /\ uuid_next = MaxUsers + 1
    /\ tasks = NoTasks
    /\ last = [op |-> "init"]

\* callback_promocode_server_selected: the code typed earlier is redeemed when a
\* server with a free slot is listed
callback_promocode_server_selected(u, code, env, requery) ==
    IF get_available_servers(_servers, db_servers, db_users, IdOrder) = <<>>
    THEN /\ last' = [op |-> "no_available_servers", u |-> u, code |-> code]
         /\ UNCHANGED <<_servers, db_servers, db_users, db_promocodes, tasks, panel, uuid_next>>
    ELSE \E r \in {activate_promocode(_servers, db_servers, db_users, db_promocodes, panel,
                                      UserObject(u), db_promocodes[code], uuid_next, env,
                                      requery)} :
            /\ FreshLeft
            /\ _servers' = r.pool
            /\ db_servers' = r.dbs
            /\ db_users' = r.users
            /\ db_promocodes' = r.promos
            /\ UNCHANGED tasks
            /\ panel' = r.panel
            /\ uuid_next' = IF r.path = "create" THEN uuid_next + 1 ELSE uuid_next
            /\ last' = [op |-> "activate_promocode", u |-> u, code |-> code,
                        before |-> db_promocodes, activated |-> r.activated,
                        path |-> r.path, attempted |-> r.attempted,
                        succeeded |-> r.succeeded, success |-> r.success,
                        panel_changed |-> r.panel # panel, ok |-> r.ok]

NextPromo ==
    \E u \in UserIds, code \in Codes, env \in FanOutEnvs, requery \in BOOLEAN :
        callback_promocode_server_selected(u, code, env, requery)

SpecPromo == InitPromo /\ [][NextPromo]_vars


\* ---- the subscription aggregator (GET /sub/{vpn_id}) ------------------------------------
\* the fleet the aggregator is run on
FleetIds == 1..MaxFleet

\* a line of a panel's subscription text: a vless:// or trojan:// link, a vmess://
\* link whose payload is a JSON object, a vmess:// link whose payload is not, a
\* link of another scheme, or a blank line
LineKinds == {"vless", "vmess", "vmess_bad", "other", ""}

Texts == UNION { [1..n -> LineKinds] : n \in 1..MaxLines }

\* what asyncio.gather returns for one server.  status is 0 for an exception in
\* place of a response; read_ok is whether res.read() returns; b64 tells what
\* base64.b64decode makes of the body: "yes" the body is the base64 of lines,
\* "no" the body is lines as plain text and the decoder raises, "junk" the body
\* is lines as plain text that the decoder accepts (it skips the characters
\* outside its alphabet), giving the text junk
Fetched(status, read_ok, b64, lines, junk) ==
    [status |-> status, read_ok |-> read_ok, b64 |-> b64, lines |-> lines, junk |-> junk]

\* an exception, an error status with or without a page, a body that cannot be
\* read, an empty body, plain text that the decoder accepts, and the texts in
\* base64 or plain
Responses ==
    { Fetched(0, FALSE, "no", <<>>, <<>>), Fetched(500, TRUE, "no", <<>>, <<>>),
      Fetched(500, TRUE, "no", <<"other">>, <<>>),
      Fetched(200, FALSE, "no", <<>>, <<>>), Fetched(200, TRUE, "no", <<>>, <<>>) }
        \cup { Fetched(200, TRUE, "junk", <<"vless">>, j) : j \in {<<>>, <<"other">>} }
        \cup { Fetched(200, TRUE, b, t, <<>>) : b \in {"yes", "no"}, t \in Texts }

\* lines 164-172: the decoded content, as its lines
Decoded(res) == IF res.b64 = "junk" THEN res.junk ELSE res.lines

\* lines 183-285: a non-blank line with the name of the server put in
Renamed(line, new_name) ==
    CASE line = "vless" -> [line |-> "vless", name |-> new_name, at |-> "fragment",
                            allowInsecure |-> TRUE]
      [] line = "vmess" -> [line |-> "vmess", name |-> new_name, at |-> "ps",
                            allowInsecure |-> TRUE]
      [] OTHER -> [line |-> line, name |-> new_name, at |-> "fragment",
                   allowInsecure |-> FALSE]

RECURSIVE RenamedLines(_, _, _)
RenamedLines(config_lines, k, new_name) ==
    IF k > Len(config_lines) THEN <<>>
    ELSE IF config_lines[k] = "" THEN RenamedLines(config_lines, k + 1, new_name)
         ELSE <<Renamed(config_lines[k], new_name)>>
                  \o RenamedLines(config_lines, k + 1, new_name)

\* ConfigsOf taking the lines of a response whatever its status
ConfigsOf_any_status(current_server, res) ==
    IF res.status = 0 \/ ~res.read_ok THEN <<>>
    ELSE RenamedLines(Decoded(res), 1, current_server.name)

\* lines 155-293: what one result adds to all_configs
ConfigsOf(current_server, res) ==
    IF res.status # 200 \/ ~res.read_ok THEN <<>>
    ELSE RenamedLines(Decoded(res), 1, current_server.name)

RECURSIVE AllConfigs(_, _, _)
AllConfigs(servers, results, i) ==
    IF i > Len(servers) THEN <<>>
    ELSE ConfigsOf(servers[i], results[servers[i].id]) \o AllConfigs(servers, results, i + 1)

\* lines 98-122: the Subscription-Userinfo header, "" without client data
UserInfoHeader(client_data) ==
    IF client_data = None THEN ""
    ELSE [upload |-> client_data.traffic_up, download |-> client_data.traffic_down,
          total |-> IF client_data.traffic_total > 0 THEN client_data.traffic_total ELSE 0,
          expire |-> IF client_data.expiry_timestamp > 0
                     THEN <<client_data.expiry_timestamp \div 1000>> ELSE <<>>]

HttpResponse(status, configs, header) ==
    [status |-> status, base64 |-> configs, header |-> header]

\* lines 78-127: up to the list of servers to fetch from.  response is set when
\* the handler returns before fetching anything
SubPrelude(pool, dbs, users, pnl, vpn_id, env, listing) ==
    LET found == { u \in DOMAIN users : users[u].vpn_id = vpn_id }
        Early(status) == [pool |-> pool, dbs |-> dbs, servers |-> <<>>, header |-> "",
                          response |-> HttpResponse(status, <<>>, "")]
        Listed(d, servers) ==
            [pool |-> d.pool, dbs |-> d.dbs, servers |-> servers,
             header |-> UserInfoHeader(d.data),
             response |-> IF servers = <<>> THEN HttpResponse(503, <<>>, "") ELSE None]
        Counted(d) == Listed(d, get_available_servers(d.pool, d.dbs, users, listing))
    IN IF vpn_id = 0 THEN Early(400)
       ELSE IF found = {} THEN Early(404)
       ELSE IF Cardinality(found) > 1 THEN Early(500)
       ELSE Counted(get_client_data(pool, dbs, pnl, users[CHOOSE u \in found : TRUE], env))

\* SubCollect without the test "if not all_configs"
SubCollect_always_ok(servers, results, header) ==
    HttpResponse(200, AllConfigs(servers, results, 1), header)

\* lines 153-314: from the gathered results to the response
SubCollect(servers, results, header) ==
    LET Answer(all_configs) ==
            IF all_configs = <<>> THEN HttpResponse(500, <<>>, "")
            ELSE HttpResponse(200, all_configs, header)
    IN Answer(AllConfigs(servers, results, 1))

\* the identifiers a request can carry: none, a stored one, one nobody has
UnknownId == MaxUsers + MaxFresh + 1

SubIds == {0, UnknownId} \cup UserIds

FleetOrder == [i \in 1..MaxFleet |-> i]

FleetOrders ==
    UNION { { o \in [1..n -> FleetIds] : \A i, j \in 1..n : i < j => o[i] < o[j] } :
              n \in 0..MaxFleet }

\* some of the fleet is pooled, online or not, the rows agree with the snapshots;
\* the user has a primary server or none and an entry on every panel
InitSub ==
    /\ db_servers \in { [s \in FleetIds |-> [NewRow(s, s) EXCEPT !.online = f[s]]] :
                          f \in [FleetIds -> BOOLEAN] }
    /\ _servers \in { [i \in 1..Len(o) |-> Connection(db_servers[o[i]])] : o \in FleetOrders }
    /\ db_users \in { [u \in UserIds |-> [tg_id |-> u, server_id |-> s, vpn_id |-> u]] :
                        s \in {0, 1} }
    /\ db_promocodes = NoPromocodes
    /\ tasks = NoTasks
    /\ panel = [s \in FleetIds |->
                  [inbounds |-> 1, clients |-> [u \in UserIds |-> BoughtEntry(u)]]]
    /\ uuid_next = MaxUsers + 1
    /\ last = [op |-> "init"]

\* get_aggregated_subscription.  results holds what the fetch from each listed
\* server gave; fetched is the set of servers a request was sent to.  A request
\* leaves the pool, the tables and the panels of this fleet as they are, so one
\* request is followed on each state of the fleet.
GetSubscription(vpn_id, list_ok) ==
    /\ last.op = "init"
    /\ \E p \in {SubPrelude(_servers, db_servers, db_users, panel, vpn_id,
                         [s \in FleetIds |-> IF list_ok THEN AllOk ELSE NoList], FleetOrder)} :
          /\ _servers' = p.pool
          /\ db_servers' = p.dbs
          /\ \E results \in [{ p.servers[i].id : i \in 1..Len(p.servers) } -> Responses] :
                last' = [op |-> "sub", vpn_id |-> vpn_id,
                         servers |-> [i \in 1..Len(p.servers) |-> p.servers[i].id],
                         fetched |-> IF p.response = None THEN DOMAIN results ELSE {},
                         results |-> results,
                         response |-> IF p.response # None THEN p.response
                                      ELSE SubCollect(p.servers, results, p.header)]
    /\ UNCHANGED <<db_users, db_promocodes, tasks, panel, uuid_next>>

NextSub == \E vpn_id \in SubIds, list_ok \in BOOLEAN : GetSubscription(vpn_id, list_ok)

SpecSub == InitSub /\ [][NextSub]_vars


\* ---- lookups while an edit is half done ----------------------------------------------
\* handle_server_edit commits the edited row and then awaits sync_servers: the
\* handlers that run in between find pooled snapshots older than the rows
RECURSIVE EditsUpTo(_, _)
EditsUpTo(ids, n) ==
    IF n = 0 THEN {{}}
    ELSE LET Grown(fewer) == fewer \cup { s \cup {e} : s \in fewer, e \in ids \X EditValues }
         IN Grown(EditsUpTo(ids, n - 1))

InitStale ==
    \E ids \in SUBSET ServerIds, f \in [ServerIds -> BOOLEAN], o \in PoolOrders :
       \E edits \in EditsUpTo(ids, MaxEdits) :
          /\ \A d, e \in edits : (d[1] = e[1] /\ d[2][1] = e[2][1]) => d = e
          /\ \A e \in edits : NewRow(e[1], e[1])[e[2][1]] # e[2][2]
          /\ \A e \in edits : e[2][1] = "name" => e[2][2] \notin ids
          /\ db_servers = [s \in ids |->
                [c \in DOMAIN NewRow(s, s) |->
                    IF c = "online" THEN f[s]
                    ELSE IF \E e \in edits : e[1] = s /\ e[2][1] = c
                         THEN (CHOOSE e \in edits : e[1] = s /\ e[2][1] = c)[2][2]
                         ELSE NewRow(s, s)[c]]]
          /\ _servers = [i \in 1..Len(o) |->
                            Connection([NewRow(o[i], o[i]) EXCEPT !.online = f[o[i]]])]
          /\ db_users = NoUsers
          /\ panel = EmptyPanel
          /\ db_promocodes = NoPromocodes
          /\ tasks = NoTasks
          /\ uuid_next = MaxUsers + 1
          /\ last = [op |-> "init"]

NextStale ==
    \/ \E id \in ServerIds, env \in LoginEnvs : GetConnectionById(id, env)
    \/ \E env \in LoginEnvs, order \in Orders : SyncServers(env, order)

SpecStale == InitStale /\ [][NextStale]_vars


\* ---- the coroutines of the services, statement by statement ----------------------------
\* A body is the sequence of the statements of a coroutine that matter to its
\* control flow: the remote panel calls, the database calls, the calls of other
\* coroutines, the try and async with blocks, the branches and loops.
Remote(what) == [k |-> "remote", what |-> what]
\* a call on the session: execute, get, update, commit
Db == [k |-> "db"]
\* session: "own" hands the callee a session, "same" forwards the caller's own
\* session parameter, "none" hands nothing
Call(f, session) == [k |-> "call", f |-> f, session |-> session]
\* try: the body runs up to handler, where the except Exception clause starts
Try(handler) == [k |-> "try", handler |-> handler]
\* async with self.session() as session
With == [k |-> "with", unless_given |-> FALSE]
\* async with (use_session if not session else nullcontext(use_session))
WithUnlessGiven == [k |-> "with", unless_given |-> TRUE]
\* the end of the async with block opened at with_pc
EndWith(with_pc) == [k |-> "endwith", of |-> with_pc]
\* if, for, continue: the statements control can go to next
Jump(to) == [k |-> "jump", to |-> to]
Raise == [k |-> "raise"]
Return == [k |-> "return"]
\* async with (session if session else self.session()): the session entered is
\* the caller's when one was given
WithEither == [k |-> "with_either"]
\* session = self.session() and await session.close(), without a with block
Open == [k |-> "open"]
Close == [k |-> "close"]
\* a statement without calls
Local == [k |-> "local"]

\* _add_server whose api.login() is awaited outside the try
_add_server_body_login_unguarded ==
    << Jump({2, 11}),
       Local,
       Remote("login"),
       Jump({6}),
       Local,
       With,
       Db,
       Jump({9, 10}),
       Db,
       EndWith(6),
       Return >>

_add_server_body ==
    << Jump({2, 11}),          \* 1  if server.id not in self._servers
       Try(5),                 \* 2
       Remote("login"),        \* 3  await api.login()
       Jump({6}),              \* 4  self._servers[server.id] = server_conn
       Local,                  \* 5  except: server.online = False
       With,                   \* 6
       Db,                     \* 7  Server.get_by_id
       Jump({9, 10}),          \* 8  if db_server and db_server.online != server.online
       Db,                     \* 9  Server.update
       EndWith(6),             \* 10
       Return >>               \* 11

refresh_server_body ==
    << Jump({2, 12}),          \* 1  if server.id in self._servers
       Try(5),                 \* 2
       Remote("login"),        \* 3
       Jump({6}),              \* 4
       Local,                  \* 5  except: server.online = False
       With,                   \* 6
       Db,                     \* 7
       Jump({9, 10}),          \* 8
       Db,                     \* 9
       EndWith(6),             \* 10
       Return,                 \* 11
       Call("_add_server", "none"),   \* 12  else
       Return >>               \* 13

get_inbound_id_body ==
    << Try(4),                 \* 1
       Remote("get_list"),     \* 2
       Jump({5}),              \* 3
       Return,                 \* 4  except: return None
       Return >>               \* 5

get_connection_by_server_id_body ==
    << Jump({2, 9}),           \* 1  if not connection
       WithUnlessGiven,        \* 2
       Db,                     \* 3  Server.get_by_id
       EndWith(2),             \* 4
       Jump({6, 8}),           \* 5  if server
       Call("_add_server", "none"),   \* 6
       Return,                 \* 7  return self._servers.get(server.id)
       Return,                 \* 8  return None
       WithUnlessGiven,        \* 9
       Db,                     \* 10
       EndWith(9),             \* 11
       Return >>               \* 12

get_connection_body ==
    << Jump({2, 8}),           \* 1  if not user.server_id
       Jump({3, 7}),           \* 2  for server in servers
       Call("get_connection_by_server_id", "same"),   \* 3
       Jump({2, 5}),           \* 4  if conn
       Call("_find_client_on_server", "none"),        \* 5
       Jump({2, 7}),           \* 6  if client_on_server: return conn
       Return,                 \* 7
       Call("get_connection_by_server_id", "same"),   \* 8
       Return >>               \* 9

sync_servers_body ==
    << With,                   \* 1
       Try(5),                 \* 2
       Db,                     \* 3  select(Server)
       Jump({6}),              \* 4
       Return,                 \* 5  except: return
       Jump({7, 8}),           \* 6  if not db_servers and not self._servers
       Return,                 \* 7
       Local,                  \* 8  the evictions: _remove_server has no await
       Jump({10, 12}),         \* 9  for server_id in ids_to_refresh
       Call("refresh_server", "none"),                \* 10
       Jump({9}),              \* 11
       Jump({13, 15}),         \* 12 for server_id in ids_to_add
       Call("_add_server", "none"),                   \* 13
       Jump({12}),             \* 14
       Jump({16, 26}),         \* 15 if newly_added_server_ids and self.vpn_service
       Try(19),                \* 16
       Db,                     \* 17 select(User)
       Jump({20}),             \* 18
       Local,                  \* 19 except: users_with_vpn_id = []
       Jump({21, 26}),         \* 20 for user in users_with_vpn_id
       Call("get_client_data", "own"),                \* 21
       Jump({20, 23}),         \* 22 if not user_client_data: continue
       Jump({24, 20}),         \* 23 for server_id in newly_added_server_ids
       Call("ensure_client_exists_on_server", "own"), \* 24
       Jump({23}),             \* 25
       EndWith(1),             \* 26
       Return >>               \* 27

_find_client_on_server_body ==
    << Try(4),                 \* 1
       Remote("get_list"),     \* 2
       Return,                 \* 3  return client, or fall out of the loops
       Return >>               \* 4  except: log; return None

is_client_exists_body ==
    << WithUnlessGiven,        \* 1
       Jump({3, 7}),           \* 2  for server in servers
       Call("get_connection_by_server_id", "own"),    \* 3
       Jump({2, 5}),           \* 4  if not connection: continue
       Call("_find_client_on_server", "none"),        \* 5
       Jump({2, 8}),           \* 6  if client: return client
       EndWith(1),             \* 7
       Return >>               \* 8

get_client_data_body ==
    << Try(17),                \* 1
       WithUnlessGiven,        \* 2
       Jump({4, 5}),           \* 3  if not servers
       Return,                 \* 4
       Jump({6, 13}),          \* 5  for server in servers
       Call("get_connection_by_server_id", "own"),    \* 6
       Jump({5, 8}),           \* 7  if not connection or not connection.server.online
       Try(11),                \* 8
       Remote("get_list"),     \* 9
       Jump({5}),              \* 10
       Local,                  \* 11 except: log
       Jump({5}),              \* 12
       EndWith(2),             \* 13
       Jump({15, 16}),         \* 14 if max_devices is None
       Return,                 \* 15
       Return,                 \* 16 return client_data
       Return >>               \* 17 except: return None

_perform_action_on_all_servers_body ==
    << With,                   \* 1
       Jump({3, 4}),           \* 2  if not servers
       Return,                 \* 3
       Jump({5, 18}),          \* 4  for server in servers
       Call("get_connection_by_server_id", "own"),    \* 5
       Jump({4, 7}),           \* 6  if not connection: continue
       Try(17),                \* 7
       Call("_find_client_on_server", "none"),        \* 8
       Jump({10, 12, 16}),     \* 9  the branches of create, update, delete
       Remote("client"),       \* 10 client.update, client.delete
       Jump({16}),             \* 11
       Call("get_inbound_id", "none"),                \* 12
       Jump({14, 15}),         \* 13 if not inbound_id
       Raise,                  \* 14
       Remote("client"),       \* 15 client.add
       Jump({4}),              \* 16 successful_ops += 1
       Jump({4}),              \* 17 except: log
       EndWith(1),             \* 18
       Return >>               \* 19

create_client_body ==
    << Call("_perform_action_on_all_servers", "none"),   \* 1
       Jump({3, 13}),          \* 2  if successful_creations > 0
       With,                   \* 3
       Call("get_connection_by_server_id", "own"),    \* 4
       Jump({6, 7}),           \* 5  if not connection
       Return,                 \* 6
       Call("_find_client_on_server", "none"),        \* 7
       Jump({9, 10}),          \* 8  if not created_client
       Return,                 \* 9
       Db,                     \* 10 User.get
       Db,                     \* 11 User.create, User.update
       Return,                 \* 12 return user_in_db
       Return >>               \* 13

update_client_body ==
    << Call("_perform_action_on_all_servers", "none"),   \* 1
       Return >>               \* 2

delete_client_body ==
    << Call("_perform_action_on_all_servers", "none"),   \* 1
       Jump({3, 6}),           \* 2  if successful_deletions > 0
       With,                   \* 3
       Db,                     \* 4  User.update
       EndWith(3),             \* 5
       Return >>               \* 6

ensure_client_exists_on_server_body ==
    << Call("get_connection_by_server_id", "own"),    \* 1
       Jump({3, 4}),           \* 2  if not connection
       Return,                 \* 3
       Call("_find_client_on_server", "none"),        \* 4
       Jump({6, 7}),           \* 5  if existing_client
       Return,                 \* 6
       Call("get_client_data", "own"),                \* 7
       Jump({9, 10}),          \* 8  if not client_data, if not user.vpn_id
       Return,                 \* 9
       Try(16),                \* 10
       Call("get_inbound_id", "none"),                \* 11
       Jump({13, 14}),         \* 12 if not inbound_id
       Raise,                  \* 13
       Remote("client"),       \* 14 client.add
       Return,                 \* 15
       Return >>               \* 16 except: return False

process_bonus_days_body ==
    << Call("is_client_exists", "none"),              \* 1
       Jump({3, 5}),           \* 2
       Call("update_client", "none"),                 \* 3
       Return,                 \* 4
       Call("create_client", "none"),                 \* 5
       Return >>               \* 6

\* activate_promocode closing its first session by hand after the call
activate_promocode_body_close_by_hand ==
    << Open,
       Db,
       Close,
       Jump({5, 6}),
       Return,
       Call("process_bonus_days", "none"),
       Jump({8, 9}),
       Return,
       With,
       Db,
       EndWith(9),
       Return >>

activate_promocode_body ==
    << With,                   \* 1
       Db,                     \* 2  Promocode.set_activated
       EndWith(1),             \* 3
       Jump({5, 6}),           \* 4  if not activated
       Return,                 \* 5
       Call("process_bonus_days", "none"),            \* 6
       Jump({8, 9}),           \* 7  if success
       Return,                 \* 8
       With,                   \* 9
       Db,                     \* 10 Promocode.set_deactivated
       EndWith(9),             \* 11
       Return >>               \* 12

get_available_server_body ==
    << WithEither,             \* 1
       Jump({3, 4}),           \* 2  if not online_server_ids
       Return,                 \* 3  return None
       Db,                     \* 4  select(Server)
       EndWith(1),             \* 5
       Return >>               \* 6

get_available_server_by_location_body ==
    << Jump({2, 3}),           \* 1  if not server_ids_in_location
       Return,                 \* 2
       WithEither,             \* 3
       Db,                     \* 4
       EndWith(3),             \* 5
       Return >>               \* 6

get_available_servers_body ==
    << WithEither,             \* 1
       Jump({3, 4}),           \* 2  if not online_server_ids
       Return,                 \* 3  return []
       Db,                     \* 4
       EndWith(1),             \* 5
       Local,                  \* 6  available_servers stays as filtered
       Return >>               \* 7

assign_server_to_user_body ==
    << WithUnlessGiven,        \* 1
       Jump({3, 5}),           \* 2  if user.server_id
       Call("get_connection_by_server_id", "own"),    \* 3  session=active_session
       Jump({5, 11}),          \* 4  if conn: return conn.server
       Jump({6, 7}),           \* 5  if server_id
       Call("get_connection_by_server_id", "own"),    \* 6
       Jump({8, 9}),           \* 7  if not server_to_assign
       Call("get_available_server", "own"),           \* 8  session=active_session
       Jump({10, 12}),         \* 9  if server_to_assign
       Db,                     \* 10 User.update
       Return,                 \* 11
       EndWith(1),             \* 12
       Return >>               \* 13

Body(f) ==
    CASE f = "_add_server" -> _add_server_body
      [] f = "refresh_server" -> refresh_server_body
      [] f = "get_inbound_id" -> get_inbound_id_body
      [] f = "get_connection_by_server_id" -> get_connection_by_server_id_body
      [] f = "get_connection" -> get_connection_body
      [] f = "sync_servers" -> sync_servers_body
      [] f = "_find_client_on_server" -> _find_client_on_server_body
      [] f = "is_client_exists" -> is_client_exists_body
      [] f = "get_client_data" -> get_client_data_body
      [] f = "_perform_action_on_all_servers" -> _perform_action_on_all_servers_body
      [] f = "create_client" -> create_client_body
      [] f = "update_client" -> update_client_body
      [] f = "delete_client" -> delete_client_body
      [] f = "ensure_client_exists_on_server" -> ensure_client_exists_on_server_body
      [] f = "process_bonus_days" -> process_bonus_days_body
      [] f = "activate_promocode" -> activate_promocode_body
      [] f = "get_available_server" -> get_available_server_body
      [] f = "get_available_server_by_location" -> get_available_server_by_location_body
      [] f = "get_available_servers" -> get_available_servers_body
      [] f = "assign_server_to_user" -> assign_server_to_user_body


\* the coroutines a handler awaits, and whether they take a session argument
Operations ==
    {"_add_server", "refresh_server", "sync_servers", "get_connection_by_server_id",
     "get_connection", "_find_client_on_server", "is_client_exists", "get_client_data",
     "create_client", "update_client", "delete_client", "activate_promocode",
     "get_available_server", "get_available_server_by_location",
     "get_available_servers", "assign_server_to_user"}

TakesSession == {"get_connection_by_server_id", "get_connection", "is_client_exists",
                 "get_client_data", "get_available_server",
                 "get_available_server_by_location", "get_available_servers",
                 "assign_server_to_user"}

\* the create, update and delete fan-outs
FanOuts == {"create_client", "update_client", "delete_client"}

\* a frame: the coroutine, the statement it is at, whether it was given a session,
\* and the sessions it opened and has not closed, each with the statement that
\* opened it
Frame(f, given) == [f |-> f, pc |-> 1, given |-> given, held |-> <<>>]

Top(task) == task.stack[Len(task.stack)]

Statement(task) == Body(Top(task).f)[Top(task).pc]

SetTop(task, frame) == [task EXCEPT !.stack[Len(task.stack)] = frame]

\* the with block at statement h of the frame has entered the session the frame
\* was given, not one of its own
EntersGiven(frame, h) == frame.given /\ Body(frame.f)[h].k = "with_either"

\* leaving the with blocks hs of the frame closes the session the frame was given
ClosesGiven(frame, hs) == \E i \in 1..Len(hs) : EntersGiven(frame, hs[i])

\* the sessions the operation opened that are open now
OpenSessions(task) ==
    task.leaked
      + Cardinality({ ij \in (1..Len(task.stack)) \X (1..Len(Body("sync_servers"))) :
                        /\ ij[2] <= Len(task.stack[ij[1]].held)
                        /\ ~EntersGiven(task.stack[ij[1]], task.stack[ij[1]].held[ij[2]]) })

\* the frame on top is left: __aexit__ closes the sessions of its with blocks, a
\* session opened without one stays open
ExitFrame(task) ==
    [task EXCEPT !.stack = SubSeq(task.stack, 1, Len(task.stack) - 1),
                 !.given_closed = @ \/ ClosesGiven(Top(task), Top(task).held),
                 !.leaked = @ + Len(SelectSeq(Top(task).held,
                                              LAMBDA h : Body(Top(task).f)[h].k = "open"))]

\* the caller goes on after the await
Resume(task) ==
    IF task.stack = <<>> THEN task
    ELSE SetTop(task, [Top(task) EXCEPT !.pc = @ + 1])

\* the try blocks of the frame on top whose body holds its statement
EnclosingTries(task) ==
    { t \in 1..(Top(task).pc - 1) :
        /\ Body(Top(task).f)[t].k = "try"
        /\ Top(task).pc < Body(Top(task).f)[t].handler }

Innermost(S) == CHOOSE x \in S : \A y \in S : y <= x

\* an exception at the statement of the frame on top: the innermost except clause
\* takes it, the with blocks entered inside that try are left; without a try
\* the frame is left and the exception is the caller's, or nobody's
Thrown(task, exc) ==
    IF EnclosingTries(task) # {}
    THEN LET t == Innermost(EnclosingTries(task))
             top == Top(task)
             left == SelectSeq(top.held, LAMBDA h : h > t)
         IN [SetTop(task, [top EXCEPT !.pc = Body(top.f)[t].handler,
                                      !.held = SelectSeq(top.held, LAMBDA h : h < t)])
                EXCEPT !.exc = "none",
                       !.given_closed = @ \/ ClosesGiven(top, left),
                       !.leaked = @ + Len(SelectSeq(left,
                                                    LAMBDA h : Body(top.f)[h].k = "open"))]
    ELSE LET out == ExitFrame(task)
         IN IF out.stack = <<>>
            THEN [out EXCEPT !.exc = "none", !.escaped = exc]
            ELSE [out EXCEPT !.exc = exc]

\* one statement that is neither a remote nor a database call
Stepped(task, to) ==
    LET top == Top(task)
        s == Statement(task)
        next == [top EXCEPT !.pc = @ + 1]
    IN CASE s.k \in {"local", "try"} -> SetTop(task, next)
         [] s.k = "jump" -> SetTop(task, [top EXCEPT !.pc = to])
         [] s.k = "with" ->
              IF s.unless_given /\ top.given THEN SetTop(task, next)
              ELSE SetTop(task, [next EXCEPT !.held = Append(@, top.pc)])
         [] s.k \in {"open", "with_either"} ->
              SetTop(task, [next EXCEPT !.held = Append(@, top.pc)])
         [] s.k = "endwith" ->
              [SetTop(task, [next EXCEPT !.held = SelectSeq(@, LAMBDA h : h # s.of)])
                 EXCEPT !.given_closed = @ \/ EntersGiven(top, s.of)]
         [] s.k = "close" ->
              SetTop(task, [next EXCEPT !.held = SelectSeq(@, LAMBDA h :
                                                     Body(top.f)[h].k # "open")])
         [] s.k = "call" ->
              [task EXCEPT !.stack =
                  Append(@, Frame(s.f, CASE s.session = "own" -> TRUE
                                         [] s.session = "none" -> FALSE
                                         [] OTHER -> top.given))]
         [] s.k = "raise" -> [task EXCEPT !.exc = "local"]
         [] s.k = "return" -> Resume(ExitFrame(task))

Running == tasks # NoTasks /\ tasks[1].stack # <<>>

InitFlow ==
    /\ _servers = <<>>
    /\ db_servers = [s \in ServerIds |-> NewRow(s, s)]
    /\ db_users = NoUsers
    /\ panel = EmptyPanel
    /\ db_promocodes = NoPromocodes
    /\ uuid_next = MaxUsers + 1
    /\ tasks = NoTasks
    /\ last = [op |-> "init"]

\* a handler awaits one of the operations, with a session of its own or without
StartOperation(f, given) ==
    /\ tasks = NoTasks
    /\ given => f \in TakesSession
    /\ tasks' = << [op |-> f, stack |-> <<Frame(f, given)>>, exc |-> "none",
                    escaped |-> "none", leaked |-> 0, given_closed |-> FALSE] >>
    /\ last' = [op |-> "await", f |-> f]
    /\ UNCHANGED <<_servers, db_servers, db_users, db_promocodes, panel, uuid_next>>

Step(to) ==
    /\ Running /\ tasks[1].exc = "none"
    /\ Statement(tasks[1]).k \notin {"remote", "db"}
    /\ Statement(tasks[1]).k = "jump" => to \in Statement(tasks[1]).to
    /\ Statement(tasks[1]).k # "jump" => to = 0
    /\ tasks' = <<Stepped(tasks[1], to)>>
    /\ last' = [op |-> "statement", k |-> Statement(tasks[1]).k]
    /\ UNCHANGED <<_servers, db_servers, db_users, db_promocodes, panel, uuid_next>>

\* a call of the panel: it answers or it fails
RemoteCall(ok) ==
    /\ Running /\ tasks[1].exc = "none"
    /\ Statement(tasks[1]).k = "remote"
    /\ tasks' = << IF ok THEN SetTop(tasks[1], [Top(tasks[1]) EXCEPT !.pc = @ + 1])
                   ELSE [tasks[1] EXCEPT !.exc = "remote"] >>
    /\ last' = [op |-> "remote", what |-> Statement(tasks[1]).what, ok |-> ok,
                sessions |-> OpenSessions(tasks[1])]
    /\ UNCHANGED <<_servers, db_servers, db_users, db_promocodes, panel, uuid_next>>

\* a call on a session: it answers or it fails
DbCall(ok) ==
    /\ Running /\ tasks[1].exc = "none"
    /\ Statement(tasks[1]).k = "db"
    /\ tasks' = << IF ok THEN SetTop(tasks[1], [Top(tasks[1]) EXCEPT !.pc = @ + 1])
                   ELSE [tasks[1] EXCEPT !.exc = "db"] >>
    /\ last' = [op |-> "db", ok |-> ok]
    /\ UNCHANGED <<_servers, db_servers, db_users, db_promocodes, panel, uuid_next>>

\* the exception in flight reaches an except clause or leaves the frame
Unwind ==
    /\ Running /\ tasks[1].exc # "none"
    /\ tasks' = <<Thrown(tasks[1], tasks[1].exc)>>
    /\ last' = [op |-> "unwind", exc |-> tasks[1].exc, f |-> Top(tasks[1]).f,
                caught |-> EnclosingTries(tasks[1]) # {}]
    /\ UNCHANGED <<_servers, db_servers, db_users, db_promocodes, panel, uuid_next>>

\* the handler has its answer, or the exception
Finish ==
    /\ tasks # NoTasks /\ tasks[1].stack = <<>>
    /\ tasks' = NoTasks
    /\ last' = [op |-> "done", f |-> tasks[1].op, escaped |-> tasks[1].escaped]
    /\ UNCHANGED <<_servers, db_servers, db_users, db_promocodes, panel, uuid_next>>

NextFlow ==
    \/ \E f \in Operations, given \in BOOLEAN : StartOperation(f, given)
    \/ \E to \in 0..Len(Body("sync_servers")) : Step(to)
    \/ \E ok \in BOOLEAN : RemoteCall(ok)
    \/ \E ok \in BOOLEAN : DbCall(ok)
    \/ Unwind
    \/ Finish

SpecFlow == InitFlow /\ [][NextFlow]_vars


\* ---- coroutines of the pool interleaved at their awaits --------------------
\* The handlers run as tasks of one event loop: a task runs alone from one
\* await to the next, and any other task may run while it is suspended.  The
\* pool code takes no lock, so the steps below are guarded by the task's own
\* position only.
MaxTasks == 2
TaskIds == 1..MaxTasks

Idle == [op |-> "idle", pc |-> "idle"]

\* Connection(server=server, api=api) built by task t: ident tells the objects
\* apart (0: objects that were there before the tasks started)
RaceConnection(server, t) ==
    [id |-> server.id, server |-> server, api |-> [host |-> server.host],
     ident |-> [connection |-> t, server |-> t]]

\* self._servers[id] = conn: a present key keeps its position in the dict
PoolPut(pool, conn) ==
    IF conn.id \in PoolIds(pool)
    THEN [pool EXCEPT ![PoolIndex(pool, conn.id)] = conn]
    ELSE Append(pool, conn)

\* server.online = value, seen through the pool when the pooled connection
\* still holds that Server object
SetOnline(pool, id, server_ident, value) ==
    IF id \in PoolIds(pool) /\ PoolGet(pool, id).ident.server = server_ident
    THEN [pool EXCEPT ![PoolIndex(pool, id)].server.online = value]
    ELSE pool

\* the sync passes that have evicted or inserted and have not finished
MutatingPasses(ts) ==
    { t \in TaskIds : ts[t].op = "sync_servers" /\ ts[t].pc # "done" /\ ts[t].mutated }

\* sync_servers from the end of one await to the next one: the refresh loop,
\* then the add loop, then the user replay
RECURSIVE SyncContinue(_, _)
SyncContinue(task, pool) ==
    IF task.ids_to_refresh # <<>>
    THEN LET id == Head(task.ids_to_refresh)
             rest == [task EXCEPT !.ids_to_refresh = Tail(@)]
         IN  IF id \in PoolIds(pool)
             THEN LET conn == PoolGet(pool, id)
                      row == task.db_server_map[id]
                      core == IF SnapshotDiffers([conn.server EXCEPT !.online = row.online], row)
                              THEN CopyCore(conn.server, row) ELSE conn.server
                  IN  [task |-> [rest EXCEPT !.pc = "refresh_login", !.server = core,
                                             !.server_ident = conn.ident.server],
                       pool |-> [pool EXCEPT ![PoolIndex(pool, id)].server = core]]
             ELSE SyncContinue(rest, pool)
    ELSE IF task.ids_to_add # <<>>
    THEN LET id == Head(task.ids_to_add)
             rest == [task EXCEPT !.ids_to_add = Tail(@)]
         IN  IF id \notin PoolIds(pool)
             THEN [task |-> [rest EXCEPT !.pc = "add_login", !.server = task.db_server_map[id]],
                   pool |-> pool]
             ELSE SyncContinue(
                      [rest EXCEPT !.newly_added =
                           IF PoolGet(pool, id).server.online THEN @ \cup {id} ELSE @],
                      pool)
    ELSE [task |-> [task EXCEPT !.pc = IF task.newly_added # {} THEN "select_users" ELSE "done"],
          pool |-> pool]

InitRace ==
    \E ids \in SUBSET ServerIds, o \in PoolOrders :
       /\ db_servers = [s \in ids |-> [NewRow(s, s) EXCEPT !.online = \E i \in 1..Len(o) : o[i] = s]]
       /\ _servers = [i \in 1..Len(o) |->
                        [id |-> o[i], server |-> [NewRow(o[i], o[i]) EXCEPT !.online = TRUE],
                         api |-> [host |-> NewRow(o[i], o[i]).host],
                         ident |-> [connection |-> 0, server |-> 0]]]
       /\ db_users = NoUsers
       /\ panel = EmptyPanel
       /\ db_promocodes = NoPromocodes
       /\ uuid_next = MaxUsers + 1
       /\ tasks = [t \in TaskIds |-> Idle]
       /\ last = [op |-> "init"]

RaceFrame == UNCHANGED <<db_users, panel, db_promocodes, uuid_next>>

\* a handler calls sync_servers(): the pass runs up to its first await
StartSync(t) ==
    /\ tasks[t].op = "idle"
    /\ tasks' = [tasks EXCEPT ![t] =
                    [op |-> "sync_servers", pc |-> "select", db_server_map |-> db_servers,
                     ids_to_refresh |-> <<>>, ids_to_add |-> <<>>, newly_added |-> {},
                     server |-> None, server_ident |-> 0, mutated |-> FALSE]]
    /\ last' = [op |-> "start", t |-> t]
    /\ UNCHANGED <<_servers, db_servers>>
    /\ RaceFrame

\* select(Server) returns: the three id sets are computed from the pool as it
\* is now, the evictions are done, and the pass runs to its next await
SyncSelect(t, order) ==
    /\ tasks[t].op = "sync_servers" /\ tasks[t].pc = "select"
    /\ LET db_ids == DOMAIN db_servers
           current_pool_ids == PoolIds(_servers)
           ids_to_remove == current_pool_ids \ db_ids
           loaded == [tasks[t] EXCEPT !.db_server_map = db_servers,
                        !.ids_to_refresh = InOrder(order, current_pool_ids \cap db_ids),
                        !.ids_to_add = InOrder(order, db_ids \ current_pool_ids),
                        !.mutated = ids_to_remove # {}]
       IN  IF db_ids = {} /\ current_pool_ids = {}
           THEN /\ tasks' = [tasks EXCEPT ![t].pc = "done"]
                /\ last' = [op |-> "select", t |-> t]
                /\ UNCHANGED _servers
           ELSE \E r \in {SyncContinue(loaded, SyncRemoveLoop(InOrder(order, ids_to_remove), 1, _servers))} :
                   /\ tasks' = [tasks EXCEPT ![t] = r.task]
                   /\ _servers' = r.pool
                   /\ last' = IF ids_to_remove # {}
                              THEN [op |-> "evict", t |-> t, ids |-> ids_to_remove,
                                    overlap |-> MutatingPasses(tasks) \ {t}]
                              ELSE [op |-> "select", t |-> t]
    /\ UNCHANGED db_servers
    /\ RaceFrame

\* get_connection_by_server_id(id) up to its await of Server.get_by_id
StartGet(t, id) ==
    /\ tasks[t].op = "idle"
    /\ tasks' = [tasks EXCEPT ![t] =
                    [op |-> "get_connection_by_server_id", id |-> id,
                     pc |-> IF PoolGet(_servers, id) = None THEN "get_by_id" ELSE "get_by_id_pooled",
                     connection |-> PoolGet(_servers, id), server |-> None, result |-> None]]
    /\ last' = [op |-> "start", t |-> t]
    /\ UNCHANGED <<_servers, db_servers>>
    /\ RaceFrame

\* the row arrives for an id that was not pooled at the lookup: _add_server
\* tests the pool again and suspends in api.login() when the id is still absent
GetById(t) ==
    /\ tasks[t].op = "get_connection_by_server_id" /\ tasks[t].pc = "get_by_id"
    /\ LET id == tasks[t].id
       IN  tasks' = [tasks EXCEPT ![t] =
                        IF id \notin DOMAIN db_servers THEN [@ EXCEPT !.pc = "done"]
                        ELSE IF id \notin PoolIds(_servers)
                             THEN [@ EXCEPT !.pc = "add_login", !.server = db_servers[id]]
                             ELSE [@ EXCEPT !.pc = "done", !.server = db_servers[id],
                                            !.result = PoolGet(_servers, id)]]
    /\ last' = [op |-> "get_by_id", t |-> t]
    /\ UNCHANGED <<_servers, db_servers>>
    /\ RaceFrame

\* the row arrives for an id that was pooled at the lookup: the connection
\* object found then takes the row when they differ, and is returned
GetByIdPooled(t) ==
    /\ tasks[t].op = "get_connection_by_server_id" /\ tasks[t].pc = "get_by_id_pooled"
    /\ LET id == tasks[t].id
           found == tasks[t].connection
           pooled == PoolGet(_servers, id)
           same == pooled # None /\ pooled.ident.connection = found.ident.connection
           connection == IF same THEN pooled ELSE found
           replace == id \in DOMAIN db_servers /\ SnapshotDiffers(connection.server, db_servers[id])
           returned == IF replace
                       THEN [connection EXCEPT !.server = db_servers[id], !.ident.server = t]
                       ELSE connection
       IN  /\ tasks' = [tasks EXCEPT ![t].pc = "done", ![t].result = returned]
           /\ _servers' = IF same THEN [_servers EXCEPT ![PoolIndex(_servers, id)] = returned]
                          ELSE _servers
    /\ last' = [op |-> "get_by_id", t |-> t]
    /\ UNCHANGED db_servers
    /\ RaceFrame

\* api.login() of _add_server returns or raises
AddLogin(t, ok) ==
    /\ tasks[t].pc = "add_login"
    /\ LET server == [tasks[t].server EXCEPT !.online = ok]
       IN  /\ tasks' = [tasks EXCEPT ![t].server = server, ![t].pc = "add_db",
                           ![t].mutated = IF tasks[t].op = "sync_servers" THEN @ \/ ok ELSE FALSE]
           /\ _servers' = IF ok THEN PoolPut(_servers, RaceConnection(server, t)) ELSE _servers
           /\ last' = IF ok
                      THEN [op |-> "insert", t |-> t, id |-> server.id,
                            replaced |-> PoolGet(_servers, server.id),
                            handed |-> { tasks[u].result : u \in { v \in TaskIds : tasks[v].op = "get_connection_by_server_id" } } \ {None},
                            overlap |-> IF tasks[t].op = "sync_servers"
                                        THEN MutatingPasses(tasks) \ {t} ELSE {}]
                      ELSE [op |-> "login_failed", t |-> t]
    /\ UNCHANGED db_servers
    /\ RaceFrame

\* api.login() of refresh_server returns or raises
RefreshLogin(t, ok) ==
    /\ tasks[t].pc = "refresh_login"
    /\ tasks' = [tasks EXCEPT ![t].server.online = ok, ![t].pc = "refresh_db"]
    /\ _servers' = SetOnline(_servers, tasks[t].server.id, tasks[t].server_ident, ok)
    /\ last' = [op |-> "refresh_login", t |-> t, ok |-> ok]
    /\ UNCHANGED db_servers
    /\ RaceFrame

\* the conditional write of the online flag that ends _add_server and
\* refresh_server; the caller then runs to its next await
PersistStatus(t) ==
    /\ tasks[t].pc \in {"add_db", "refresh_db"}
    /\ db_servers' = PersistOnline(db_servers, tasks[t].server).dbs
    /\ IF tasks[t].op = "sync_servers"
       THEN \E r \in {SyncContinue(
                        IF tasks[t].pc = "add_db"
                           /\ tasks[t].server.id \in PoolIds(_servers)
                           /\ PoolGet(_servers, tasks[t].server.id).server.online
                        THEN [tasks[t] EXCEPT !.newly_added = @ \cup {tasks[t].server.id}]
                        ELSE tasks[t],
                        _servers)} :
               /\ tasks' = [tasks EXCEPT ![t] = r.task]
               /\ _servers' = r.pool
       ELSE /\ tasks' = [tasks EXCEPT ![t].pc = "done",
                                      ![t].result = PoolGet(_servers, tasks[t].id)]
            /\ UNCHANGED _servers
    /\ last' = [op |-> "persist", t |-> t]
    /\ RaceFrame

\* select(User) of the replay returns; no user has a vpn_id here, so the
\* replay loop has nothing to do
SelectUsers(t) ==
    /\ tasks[t].pc = "select_users"
    /\ tasks' = [tasks EXCEPT ![t].pc = "done"]
    /\ last' = [op |-> "select_users", t |-> t]
    /\ UNCHANGED <<_servers, db_servers>>
    /\ RaceFrame

NextRace ==
    \/ \E t \in TaskIds : StartSync(t)
    \/ \E t \in TaskIds, order \in Orders : SyncSelect(t, order)
    \/ \E t \in TaskIds, id \in ServerIds : StartGet(t, id)
    \/ \E t \in TaskIds : GetById(t)
    \/ \E t \in TaskIds : GetByIdPooled(t)
    \/ \E t \in TaskIds, ok \in BOOLEAN : AddLogin(t, ok)
    \/ \E t \in TaskIds, ok \in BOOLEAN : RefreshLogin(t, ok)
    \/ \E t \in TaskIds : PersistStatus(t)
    \/ \E t \in TaskIds : SelectUsers(t)

SpecRace == InitRace /\ [][NextRace]_vars


\* ---- the whole life of a client: create, update, delete and sync --------------
\* a handler updates the client of a registered user
UpdateClient(u, kwargs, env) ==
    \E r \in {update_client(_servers, db_servers, panel, UserObject(u), kwargs, env)} :
       /\ u \in DOMAIN db_users
       /\ _servers' = r.pool
       /\ db_servers' = r.dbs
       /\ panel' = r.panel
       /\ last' = [op |-> "update", u |-> u, kwargs |-> kwargs, ok |-> r.ok,
                   succeeded |-> r.succeeded, attempted |-> r.attempted,
                   pool_before |-> _servers, panel_before |-> panel,
                   reachable |-> { s \in ServerIds : env[s] = AllOk }]
       /\ UNCHANGED <<db_users, db_promocodes, tasks, uuid_next>>

\* the updates a purchase of devices makes
LifeUpdates == { [devices |-> d] : d \in DeviceChoices }

NextLife ==
    \/ \E u \in UserIds, devices \in DeviceChoices, duration \in DurationChoices,
          env \in FanOutEnvs, requery \in BOOLEAN :
          CreateClient(u, devices, duration, env, requery)
    \/ \E u \in UserIds, kwargs \in LifeUpdates, env \in FanOutEnvs :
          UpdateClient(u, kwargs, env)
    \/ \E u \in UserIds, env \in FanOutEnvs : DeleteClient(u, env)
    \/ \E env \in SyncEnvs, order \in Orders : SyncVpn(env, order)

SpecLife == InitVpn /\ [][NextLife]_vars


\* ---- updates of clients that have a history -----------------------------------
\* the cap on the expiry of an entry that is extended once more
MaxExpiry == 4

\* the expiry an entry can have when the update comes: unset, past, still to come
ExpiryChoices == {0, Now - 1, Now + 1}

\* the keyword arguments the callers of update_client give
UpdateChoices ==
    { [duration |-> d] : d \in {0 - 1, 0, 1} }
        \cup { [duration |-> d, replace_duration |-> b] : d \in {0 - 1, 0, 1}, b \in BOOLEAN }
        \cup { [devices |-> 1] }
        \cup { [devices |-> 1, duration |-> 1, replace_duration |-> TRUE] }

\* the entry an earlier purchase of user u left on a panel, with its expiry
DatedEntry(u, expiry_time) ==
    Client(u, TRUE, expiry_time, 1) @@ [up |-> 0, down |-> 0, has_stat |-> TRUE]

\* the users are registered and the servers pooled in some order; a panel has no
\* inbound, or an inbound with or without an entry of each user
InitUpdate ==
    /\ db_servers = [s \in ServerIds |-> [NewRow(s, s) EXCEPT !.online = TRUE]]
    /\ _servers \in { [i \in 1..Len(o) |-> Connection(db_servers[o[i]])] : o \in PoolOrders }
    /\ db_users = [u \in UserIds |-> [tg_id |-> u, server_id |-> 0, vpn_id |-> u]]
    /\ panel \in [ServerIds ->
                    { [inbounds |-> 0, clients |-> [u \in {} |-> None]] }
                      \cup { [inbounds |-> 1, clients |-> c] :
                               c \in UNION { [us -> { DatedEntry(u, e) : u \in UserIds,
                                                                        e \in ExpiryChoices }] :
                                             us \in SUBSET UserIds } }]
    /\ \A s \in ServerIds : \A u \in DOMAIN panel[s].clients : panel[s].clients[u].sub_id = u
    /\ db_promocodes = NoPromocodes
    /\ tasks = NoTasks
    /\ uuid_next = MaxUsers + 1
    /\ last = [op |-> "init"]

NextUpdate ==
    \E u \in UserIds, kwargs \in UpdateChoices, env \in FanOutEnvs :
       /\ \A s \in ServerIds : HasClient(panel, s, u) => panel[s].clients[u].expiry_time <= MaxExpiry
       /\ UpdateClient(u, kwargs, env)

SpecUpdate == InitUpdate /\ [][NextUpdate]_vars


\* ---- the aggregation over panels whose entries differ in policy ------------------
\* the quotas, device limits and expiries an entry can carry
QuotaChoices == {0 - 1, 0, 1, 3}

LimitChoices == {0, 2}

\* the entry of user u on a panel: its policy, and the traffic counted so far
PolicyEntry(u, total, limit_ip, expiry_time, down) ==
    [Client(u, TRUE, expiry_time, limit_ip) EXCEPT !.total = total]
        @@ [up |-> MaxBytes, down |-> down, has_stat |-> TRUE]

PolicyEntries(u) ==
    { PolicyEntry(u, total, limit_ip, expiry_time, down) :
        total \in QuotaChoices, limit_ip \in LimitChoices,
        expiry_time \in {0, Now + 1}, down \in 0..MaxBytes }

\* the servers are pooled in some order, online or not; the panels hold entries
\* of the user that need not agree with each other
InitPolicy ==
    /\ db_servers \in { [s \in ServerIds |-> [NewRow(s, s) EXCEPT !.online = f[s]]] :
                          f \in [ServerIds -> BOOLEAN] }
    /\ _servers \in { [i \in 1..Len(o) |-> Connection(db_servers[o[i]])] : o \in PoolOrders }
    /\ db_users = [u \in UserIds |-> [tg_id |-> u, server_id |-> 0, vpn_id |-> u]]
    /\ panel \in [ServerIds ->
                    { [inbounds |-> 0, clients |-> [u \in {} |-> None]] }
                      \cup { [inbounds |-> 1, clients |-> c] :
                               c \in UNION { [us -> UNION { PolicyEntries(u) : u \in UserIds }] :
                                             us \in SUBSET UserIds } }]
    /\ \A s \in ServerIds : \A u \in DOMAIN panel[s].clients : panel[s].clients[u].sub_id = u
    /\ db_promocodes = NoPromocodes
    /\ tasks = NoTasks
    /\ uuid_next = MaxUsers + 1
    /\ last = [op |-> "init"]

NextPolicy ==
    \E u \in UserIds, list_ok \in SUBSET ServerIds : GetClientData(u, list_ok)

SpecPolicy == InitPolicy /\ [][NextPolicy]_vars


\* ---- the replay of one user onto one server ------------------------------------
\* the failures one call of ensure_client_exists_on_server meets
EnsureEnvs == [ServerIds -> {AllOk, NoLogin, NoFind, NoList, NoWrite}]

\* sync_servers, or a handler, ensures the client of a registered user on server s
EnsureClientExistsOnServer(u, s, env) ==
    \E r \in {ensure_client_exists_on_server(_servers, db_servers, panel, UserObject(u), s, env)} :
       /\ _servers' = r.pool
       /\ db_servers' = r.dbs
       /\ panel' = r.panel
       /\ last' = [op |-> "ensure", u |-> u, s |-> s, ok |-> r.ok, adds |-> r.adds,
                   panel_before |-> panel,
                   found |-> \E g \in {get_connection_by_server_id(_servers, db_servers, s, env)} :
                                /\ g.conn # None
                                /\ _find_client_on_server(panel, UserObject(u), g.conn, env) # None]
       /\ UNCHANGED <<db_users, db_promocodes, tasks, uuid_next>>

NextEnsure ==
    \E u \in UserIds, s \in ServerIds, env \in EnsureEnvs : EnsureClientExistsOnServer(u, s, env)

SpecEnsure == InitUpdate /\ [][NextEnsure]_vars


\* ---- the replay of several users onto several new servers ----------------------
\* the users of the replay: one more than the fan-outs need, so that the pass
\* has a user left after one it skips
ReplayUsers == 1..(MaxUsers + 1)

\* every server has a row; some servers are pooled already, the others are new
\* to the pass; the panels hold entries of some of the users
InitReplay ==
    /\ _servers \in { [i \in 1..Len(o) |-> Connection([NewRow(o[i], o[i]) EXCEPT !.online = TRUE])] :
                        o \in PoolOrders }
    /\ db_servers = [s \in ServerIds |->
                       [NewRow(s, s) EXCEPT !.online = s \in PoolIds(_servers)]]
    /\ db_users = [u \in ReplayUsers |-> [tg_id |-> u, server_id |-> 0, vpn_id |-> u]]
    /\ panel \in [ServerIds ->
                    { [inbounds |-> 0, clients |-> [u \in {} |-> None]] }
                      \cup { [inbounds |-> 1, clients |-> [u \in us |-> BoughtEntry(u)]] :
                               us \in SUBSET ReplayUsers }]
    /\ db_promocodes = NoPromocodes
    /\ tasks = NoTasks
    /\ uuid_next = MaxUsers + 1
    /\ last = [op |-> "init"]

\* a sync pass, with what its replay counted
SyncReplay(env, order) ==
    \E r \in {sync_servers(_servers, db_servers, db_users, panel, env, order)} :
       /\ _servers' = r.pool
       /\ db_servers' = r.dbs
       /\ panel' = r.panel
       /\ last' = [op |-> "sync_replay", env |-> env, order |-> order,
                   newly_added |-> r.newly_added_server_ids,
                   processed_count |-> r.processed_count, failed_count |-> r.failed_count,
                   skipped_count |-> r.skipped_count, panel_before |-> panel]
       /\ UNCHANGED <<db_users, db_promocodes, tasks, uuid_next>>

NextReplay ==
    \E env \in SyncEnvs, order \in Orders : SyncReplay(env, order)

SpecReplay == InitReplay /\ [][NextReplay]_vars


\* ---- a server pooled by a lookup, then a sync pass --------------------------
\* get_connection_by_server_id pools an unpooled server that has a row; the next
\* pass finds it pooled already
NextLazy ==
    \/ \E id \in ServerIds, env \in LoginEnvs : GetConnectionById(id, env)
    \/ \E env \in SyncEnvs, order \in Orders : SyncVpn(env, order)

SpecLazy == InitReplay /\ [][NextLazy]_vars


\* ---- servers that come back ---------------------------------------------------
\* the rows that are offline: pooled with a snapshot marked offline, or not
\* pooled with the row marked offline
Offline(pool, dbs) ==
    { s \in DOMAIN dbs :
        IF s \in PoolIds(pool) THEN ~PoolGet(pool, s).server.online ELSE ~dbs[s].online }

\* a sync pass, with the servers that were offline when it started
SyncRecover(env, order) ==
    \E r \in {sync_servers(_servers, db_servers, db_users, panel, env, order)} :
       /\ _servers' = r.pool
       /\ db_servers' = r.dbs
       /\ panel' = r.panel
       /\ last' = SyncRecord("sync_recover", _servers, db_servers, env, r)
                     @@ [offline_before |-> Offline(_servers, db_servers)]
       /\ UNCHANGED <<db_users, db_promocodes, tasks, uuid_next>>

NextRecover ==
    \/ \E id \in ServerIds, env \in LoginEnvs : AddServer(id, env)
    \/ \E id \in ServerIds : RemoveServer(id)
    \/ \E id \in ServerIds, env \in LoginEnvs : RefreshServer(id, env)
    \/ \E id \in ServerIds, env \in LoginEnvs : GetConnectionById(id, env)
    \/ \E env \in LoginEnvs, order \in Orders : SyncRecover(env, order)

SpecRecover == InitPool /\ [][NextRecover]_vars

\* ---- the claims -------------------------------------------------------------------

\* C1: when add(S) completes for a server S that was not pooled: after a
\* successful login S is pooled and marked online, after a failed login S is not
\* pooled and marked offline; the stored online flag of S, when the row exists,
\* equals that value, and it was written only when the stored flag differed.
C1_AddOutcome ==
    (last.op = "add" /\ ~last.was_pooled) =>
        /\ last.online = last.ok
        /\ last.ok => /\ last.id \in PoolIds(_servers)
                      /\ PoolGet(_servers, last.id).server.online
        /\ ~last.ok => last.id \notin PoolIds(_servers)
        /\ last.id \in DOMAIN db_servers => db_servers[last.id].online = last.ok
        /\ last.writes = IF last.stored = <<>> \/ last.stored = <<last.ok>> THEN 0 ELSE 1

\* an add of an unpooled server whose login failed and whose row said online
C1_Witness ==
    /\ last.op = "add" /\ ~last.was_pooled /\ ~last.ok
    /\ last.stored = <<TRUE>> /\ last.writes = 1

\* the login outcomes under which the login of server id fails
FailingLogin(id) == { env \in LoginEnvs : ~env[id].login }

\* C2 as stated: after add(S) fails authentication S is in the pool with
\* online = false, and getConnectionById(S.id) right after, the login still
\* failing, returns no connection.
C2_FailedAddStaysTracked ==
    (last.op = "add" /\ ~last.was_pooled /\ ~last.ok) =>
        /\ last.id \in PoolIds(_servers)
        /\ ~PoolGet(_servers, last.id).server.online
        /\ \A env \in FailingLogin(last.id) :
              get_connection_by_server_id(_servers, db_servers, last.id, env).conn = None

\* C2 as amended: after add(S) fails authentication S is marked offline and is
\* not in the pool (no connection was inserted), and getConnectionById(S.id)
\* right after, the login still failing, returns no connection and pools nothing.
C2_FailedAddNotPooled ==
    (last.op = "add" /\ ~last.was_pooled /\ ~last.ok) =>
        /\ last.id \notin PoolIds(_servers)
        /\ ~last.online
        /\ \A env \in FailingLogin(last.id) :
              \A g \in {get_connection_by_server_id(_servers, db_servers, last.id, env)} :
                  g.conn = None /\ g.pool = _servers

\* a failed add of a server that has a row, so that the lookup by id retries it
C2_Witness ==
    /\ last.op = "add" /\ ~last.was_pooled /\ ~last.ok
    /\ last.id \in DOMAIN db_servers

\* the online flags of the pooled snapshots and of the rows
PoolFlags(pool) == { <<pool[i].id, pool[i].server.online>> : i \in 1..Len(pool) }

RowFlags(dbs) == { <<s, dbs[s].online>> : s \in DOMAIN dbs }

\* C3: a second sync() right after a first, with the same login outcome per
\* server and the tables untouched in between, leaves the same pooled ids and the
\* same online flags in the pool and in the rows.
C3_SyncIdempotent ==
    last.op = "sync" =>
        \A env \in LoginEnvs, order \in Orders :
            LoginSet(env) = last.logins =>
                \A r \in {sync_servers(_servers, db_servers, db_users, panel, env, order)} :
                    /\ PoolIds(r.pool) = PoolIds(_servers)
                    /\ PoolFlags(r.pool) = PoolFlags(_servers)
                    /\ RowFlags(r.dbs) = RowFlags(db_servers)

\* a pass that kept a server whose login failed and left another one out
C3_Witness ==
    /\ last.op = "sync"
    /\ \E s \in PoolIds(_servers) : s \notin last.logins
    /\ \E s \in DOMAIN db_servers : s \notin PoolIds(_servers)

CoreEqual(a, b) ==
    /\ a.name = b.name
    /\ a.host = b.host
    /\ a.max_clients = b.max_clients
    /\ a.location = b.location

\* C4: after sync(): every pooled id has a row; every id pooled before that
\* still has a row is still pooled, its snapshot's name, host, capacity and
\* location equal the row's and its online flag is the outcome of the login;
\* every id with a row that was not pooled is pooled iff its login succeeded.
C4_SyncReconciles ==
    last.op = "sync" =>
        /\ PoolIds(_servers) \subseteq DOMAIN db_servers
        /\ \A s \in last.pooled_before \cap DOMAIN db_servers :
              /\ s \in PoolIds(_servers)
              /\ CoreEqual(PoolGet(_servers, s).server, db_servers[s])
              /\ PoolGet(_servers, s).server.online = (s \in last.logins)
        /\ \A s \in DOMAIN db_servers \ last.pooled_before :
              s \in PoolIds(_servers) <=> s \in last.logins

\* a pass that met a pooled snapshot with an edited field and added another server
C4_Witness ==
    /\ last.op = "sync"
    /\ last.stale # {}
    /\ \E s \in last.stale : PoolGet(_servers, s).server.location = "L2"
    /\ last.newly_added # {}

\* findOnServer(U, S) on the pooled connection of S, the list call succeeding
Hit(u, s) ==
    _find_client_on_server(panel, UserObject(u), PoolGet(_servers, s), OkEnv) # None

\* the servers the last pass added to the pool and that came up online
NewOnline ==
    { s \in PoolIds(_servers) \ last.pooled_before : PoolGet(_servers, s).server.online }

\* get_client_data of the pass can take the data of u from a pooled server other
\* than n: one marked online whose list call succeeds and lists a record of u
ObtainableElsewhere(u, n) ==
    \E m \in PoolIds(_servers) \ {n} :
        /\ PoolGet(_servers, m).server.online
        /\ m \in last.list_ok
        /\ HasStat(panel, m, u)

\* the pairs (N, U) of claim C5: N newly added and online, U a stored user with a
\* subscription identifier whose data is obtainable elsewhere, and the
\* list-inbounds and add-client calls on N succeeding
ReplayPairs ==
    { <<n, u>> \in NewOnline \X DOMAIN db_users :
        /\ db_users[u].vpn_id # 0
        /\ ObtainableElsewhere(u, n)
        /\ n \in last.list_ok
        /\ n \in last.write_ok }

\* C5 as stated: after sync(), for every newly added online server N and every
\* stored user U with a subscription identifier whose aggregated data is
\* obtainable from another pooled server, a client entry labelled with U exists
\* on N, provided the list-inbounds and add-client calls on N succeed.
C5_ReplayReachesNewServer ==
    (last.op = "sync" /\ "list_ok" \in DOMAIN last) =>
        \A p \in ReplayPairs : HasClient(panel, p[1], p[2])

\* C5 as amended: the same, for every such N that has at least one inbound to
\* hold the entry.
C5_ReplayReachesNewServerWithInbound ==
    (last.op = "sync" /\ "list_ok" \in DOMAIN last) =>
        \A p \in ReplayPairs : panel[p[1]].inbounds > 0 => HasClient(panel, p[1], p[2])

\* a pass that added a server and gave it the entry of a user, under the
\* subscription identifier the user has
C5_Witness ==
    /\ last.op = "sync" /\ "list_ok" \in DOMAIN last
    /\ \E p \in ReplayPairs :
          /\ HasClient(panel, p[1], p[2])
          /\ panel[p[1]].clients[p[2]].sub_id = db_users[p[2]].vpn_id

\* existsAnywhere(U), every list call succeeding
ExistsAnywhere(u) ==
    is_client_exists(_servers, db_servers, panel, UserObject(u), OkEnv).client # None

\* C6 as stated: after createClient(U) returned a user, findOnServer(U, S) hits
\* on every pooled server S that was online when createClient ran, and
\* existsAnywhere(U) hits.
C6_CreateReachesOnline ==
    (last.op = "create" /\ last.user # None) =>
        /\ \A s \in last.online_before : Hit(last.u, s)
        /\ ExistsAnywhere(last.u)

\* C6 as amended: after createClient(U) returned a user, findOnServer(U, S) hits
\* on every pooled server S on which the create-or-update call of the fan-out
\* succeeded, and existsAnywhere(U) hits.
C6_CreateReachesAccepting ==
    (last.op = "create" /\ last.user # None) =>
        /\ \A s \in last.succeeded : Hit(last.u, s)
        /\ ExistsAnywhere(last.u)

\* a creation that one online server accepted and another online server refused
C6_Witness ==
    /\ last.op = "create" /\ last.user # None
    /\ last.succeeded # {}
    /\ \E s \in last.online_before : s \in last.attempted \ last.succeeded

\* C7: createClient(U) returns absent only if no pooled server accepted the
\* creation: when the create-or-update call succeeded on at least one server,
\* createClient returns a user.
C7_AbsentOnlyIfNoneAccepted ==
    (last.op = "create" /\ last.succeeded # {}) => last.user # None

\* C8: after deleteClient(U) returned true, findOnServer(U, S) is absent on
\* every pooled server S on which the delete step succeeded, the stored
\* subscription identifier of U differs from the one stored before the call and
\* the primary server assignment of U is cleared.
C8_DeleteRemoves ==
    (last.op = "delete" /\ last.ok /\ last.u \in DOMAIN db_users) =>
        /\ \A s \in last.succeeded : ~Hit(last.u, s)
        /\ db_users[last.u].vpn_id # last.before.vpn_id
        /\ db_users[last.u].server_id = 0

\* the servers whose panel lists a stat record of u
StatHosts(u) == { s \in ServerIds : HasStat(panel, s, u) }

\* the pool in its other iteration order
Reversed(pool) == [i \in 1..Len(pool) |-> pool[Len(pool) + 1 - i]]

\* the aggregation of the last call returned upload and download as the sums
\* over a and b, and so does the aggregation over the reversed pool
SumsOver(a, b) ==
    LET u == last.u
        up == panel[a].clients[u].up + panel[b].clients[u].up
        down == panel[a].clients[u].down + panel[b].clients[u].down
        Agrees(data) == /\ data # None
                        /\ data.traffic_up = up
                        /\ data.traffic_down = down
    IN /\ Agrees(last.data)
       /\ Agrees(get_client_data(Reversed(_servers), db_servers, panel, UserObject(u),
                                 ListEnv(last.list_ok)).data)

\* C9 as stated: if U has stat records (u1,d1) on pooled server A and (u2,d2) on
\* pooled server B and on no other server, getAggregatedData(U) returns
\* upload = u1+u2 and download = d1+d2, for either iteration order of A and B.
C9_AggregationAdditive ==
    last.op = "get_client_data" =>
        \A a, b \in PoolIds(_servers) :
            (a # b /\ StatHosts(last.u) = {a, b}) => SumsOver(a, b)

\* a pooled server that get_client_data reads: marked online, its list call succeeding
Readable(s) == PoolGet(_servers, s).server.online /\ s \in last.list_ok

\* C9 as amended: the same, when A and B are both marked online in the pool and
\* the list-inbounds call of the aggregation succeeds on both.
C9_AggregationAdditiveOverOnline ==
    last.op = "get_client_data" =>
        \A a, b \in PoolIds(_servers) :
            (a # b /\ StatHosts(last.u) = {a, b} /\ Readable(a) /\ Readable(b))
                => SumsOver(a, b)

\* an aggregation over two online servers that both counted traffic of the user,
\* the higher id iterated first
C9_Witness ==
    /\ last.op = "get_client_data"
    /\ Len(_servers) >= 2 /\ _servers[1].id > _servers[2].id
    /\ StatHosts(last.u) = {_servers[1].id, _servers[2].id}
    /\ Readable(_servers[1].id) /\ Readable(_servers[2].id)
    /\ \A s \in StatHosts(last.u) : panel[s].clients[last.u].up > 0
    /\ \E s \in StatHosts(last.u) : panel[s].clients[last.u].down > 0
    /\ last.data # None /\ last.data.traffic_up > MaxBytes

\* C10 as stated: getAggregatedData(U) returns absent only if U is found on no
\* pooled server: when findOnServer(U, S) hits for at least one pooled server S,
\* getAggregatedData(U) returns a value.
C10_AbsentOnlyIfNotFound ==
    last.op = "get_client_data" =>
        ((\E s \in PoolIds(_servers) : Hit(last.u, s)) => last.data # None)

\* C10 as amended: getAggregatedData(U) returns absent only if no pooled server
\* that is marked online and whose list-inbounds call succeeds lists a stat
\* record of U.
C10_AbsentOnlyIfNotReadable ==
    last.op = "get_client_data" =>
        ((\E s \in PoolIds(_servers) : Readable(s) /\ HasStat(panel, s, last.u))
            => last.data # None)

\* an aggregation that found the user on one readable server while another
\* pooled server with an entry of the user was marked offline
C10_Witness ==
    /\ last.op = "get_client_data" /\ last.data # None
    /\ \E s \in PoolIds(_servers) : Readable(s) /\ HasStat(panel, s, last.u)
    /\ \E s \in PoolIds(_servers) :
          Hit(last.u, s) /\ ~PoolGet(_servers, s).server.online


\* the servers a placement call chose among that have a row and a free slot
Qualifying == { s \in last.among \cap DOMAIN db_servers :
                  current_clients(db_users, s) < db_servers[s].max_clients }

\* the qualifying servers whose occupancy is minimal
LeastOccupied ==
    { s \in Qualifying :
        \A t \in Qualifying : current_clients(db_users, s) <= current_clients(db_users, t) }

\* the position of server s in the listing of the last call
ListedAt(s) == CHOOSE i \in 1..MaxServers : last.listing[i] = s

\* C11: getAvailableServer (with or without a location) never returns a server
\* whose occupancy is >= its capacity or that is not online in the pool; when at
\* least one online pooled server has occupancy < capacity it returns one whose
\* occupancy is minimal among them, otherwise absent; and the server returned is
\* the one of least occupancy that the listing puts first, so that calls on the
\* same pool, tables and listing return the same server.
C11_AvailableServer ==
    last.op = "get_available_server" =>
        /\ last.server # None =>
              /\ last.server.id \in last.among
              /\ current_clients(db_users, last.server.id) < last.server.max_clients
              /\ last.server = db_servers[last.server.id]
        /\ Qualifying = {} <=> last.server = None
        /\ Qualifying # {} =>
              /\ last.server.id \in LeastOccupied
              /\ \A t \in LeastOccupied : ListedAt(last.server.id) <= ListedAt(t)

\* a call that passed over a busier server with a free slot that the query
\* listed first
C11_Witness ==
    /\ last.op = "get_available_server" /\ last.server # None
    /\ \E s \in Qualifying :
          /\ ListedAt(s) < ListedAt(last.server.id)
          /\ current_clients(db_users, s) > current_clients(db_users, last.server.id)


\* C12: activatePromocode(U, P) on a promocode P that is already activated
\* returns false, performs no create or update of any client entry on any
\* server, and leaves the activation state of P (activated, and by whom)
\* unchanged.
C12_ActivatedCodeRefused ==
    (last.op = "activate_promocode" /\ last.before[last.code].is_activated) =>
        /\ ~last.ok
        /\ last.attempted = {} /\ ~last.panel_changed
        /\ db_promocodes = last.before

\* a refused redemption by a user who has an entry on a pooled server that
\* would have taken the extension
C12_Witness ==
    /\ last.op = "activate_promocode" /\ last.before[last.code].is_activated
    /\ ~last.ok
    /\ \E s \in PoolIds(_servers) : HasClient(panel, s, last.u)

\* C13: when activatePromocode(U, P) marks P activated and the provisioning
\* that follows reports failure, P is unactivated again and the call returns
\* false; when the provisioning reports success P stays activated, by U, and
\* the call returns true.
C13_RollbackOnFailure ==
    (last.op = "activate_promocode" /\ last.activated) =>
        /\ ~last.before[last.code].is_activated
        /\ last.path \in {"update", "create"}
        /\ ~last.success =>
              /\ ~last.ok
              /\ db_promocodes = last.before
        /\ last.success =>
              /\ last.ok
              /\ db_promocodes[last.code].is_activated
              /\ db_promocodes[last.code].activated_user_id = last.u
              /\ \A c \in Codes \ {last.code} : db_promocodes[c] = last.before[c]

\* a redemption whose provisioning was attempted on a server and failed on
\* every server
C13_Witness ==
    /\ last.op = "activate_promocode" /\ last.activated
    /\ last.attempted # {} /\ ~last.success
    /\ ~db_promocodes[last.code].is_activated


\* the lines of a text that are not blank
NonBlank(lines) == Cardinality({ i \in 1..Len(lines) : lines[i] # "" })

\* the fetch from server s failed: an exception, or a status other than 200
FetchFailed(s) == last.results[s].status # 200

\* server s answered 200 with a body of no bytes
FetchedEmpty(s) ==
    /\ last.results[s].status = 200 /\ last.results[s].read_ok
    /\ last.results[s].b64 = "no" /\ last.results[s].lines = <<>>

\* server s answered 200 with a payload the handler decodes to its lines (base64,
\* or plain text that the base64 decoder rejects), one of them at least not blank
FetchedValid(s) ==
    /\ last.results[s].status = 200 /\ last.results[s].read_ok
    /\ last.results[s].b64 \in {"yes", "no"} /\ NonBlank(last.results[s].lines) > 0

\* C14: a subscription aggregation over available servers of which at least one
\* fails (no response, or a status other than 200), at least one returns an empty
\* body and exactly one returns a valid payload with k non-blank lines returns
\* HTTP 200 with a body of exactly k lines, each carrying the name of the server
\* that supplied it; the failed and the empty servers contribute no line.
C14_PartialAggregation ==
    (last.op = "sub" /\ last.fetched # {}) =>
        \A v \in last.fetched :
            ( /\ FetchedValid(v)
              /\ \E s \in last.fetched : FetchFailed(s)
              /\ \E s \in last.fetched : FetchedEmpty(s)
              /\ \A s \in last.fetched \ {v} : FetchFailed(s) \/ FetchedEmpty(s) )
            => /\ last.response.status = 200
               /\ Len(last.response.base64) = NonBlank(last.results[v].lines)
               /\ \A i \in 1..Len(last.response.base64) :
                     last.response.base64[i].name = db_servers[v].name

\* a request that met an error page, an empty body and a base64 payload of
\* MaxLines lines, one of them a vmess link
C14_Witness ==
    /\ last.op = "sub" /\ last.response.status = 200
    /\ \E v \in last.fetched :
          /\ FetchedValid(v) /\ last.results[v].b64 = "yes"
          /\ NonBlank(last.results[v].lines) = MaxLines
          /\ \E i \in 1..MaxLines : last.results[v].lines[i] = "vmess"
          /\ \E s \in last.fetched : FetchFailed(s) /\ last.results[s].lines # <<>>
          /\ \E s \in last.fetched : FetchedEmpty(s)
          /\ \A s \in last.fetched \ {v} : FetchFailed(s) \/ FetchedEmpty(s)
          /\ Len(last.response.base64) = MaxLines

\* the identifier of the last request is the subscription identifier of a user
Resolves == \E u \in DOMAIN db_users : db_users[u].vpn_id = last.vpn_id

\* the pooled servers marked online that have a row and a free slot
AvailableIds ==
    { s \in OnlineIds(_servers) \cap DOMAIN db_servers :
        current_clients(db_users, s) < db_servers[s].max_clients }

\* server s yielded a usable line: it answered 200 and its body decodes to a
\* text with a line that is not blank
Usable(s) ==
    /\ last.results[s].status = 200 /\ last.results[s].read_ok
    /\ NonBlank(Decoded(last.results[s])) > 0

C16_RefreshKeepsEntry ==
    last.op = "refresh" =>
        /\ last.online = last.ok
        /\ last.was_pooled =>
              /\ last.id \in PoolIds(_servers)
              /\ PoolGet(_servers, last.id).server.online = last.ok
        /\ ~last.was_pooled =>
              /\ last.id \in PoolIds(_servers) <=> last.ok
              /\ last.ok => PoolGet(_servers, last.id).server.online
        /\ last.id \in DOMAIN db_servers => db_servers[last.id].online = last.ok
        /\ last.writes = IF last.stored = <<>> \/ last.stored = <<last.ok>> THEN 0 ELSE 1

\* a refresh of a pooled server whose login failed and whose row said online
C16_Witness ==
    /\ last.op = "refresh" /\ last.was_pooled /\ ~last.ok
    /\ last.stored = <<TRUE>> /\ last.writes = 1
    /\ last.id \in PoolIds(_servers)

\* C17: remove(S) is idempotent and local: after remove(S) the id of S is not
\* in the pool, a second remove(S) changes nothing, every other pooled entry is
\* unchanged and in its place, and no row is written.
C17_RemoveLocal ==
    last.op = "remove" =>
        /\ last.id \notin PoolIds(_servers)
        /\ _servers = SelectSeq(last.pool_before, LAMBDA c : c.id # last.id)
        /\ _remove_server(_servers, ServerObject(last.id)) = _servers
        /\ db_servers = last.rows_before

\* a removal of the server pooled second, another server staying pooled
C17_Witness ==
    /\ last.op = "remove"
    /\ Len(last.pool_before) >= 2 /\ last.pool_before[2].id = last.id
    /\ Len(_servers) = Len(last.pool_before) - 1

\* C18: getConnectionById(id): if id is pooled, returns the pooled connection
\* (the same handle) with its snapshot fields equal to those of the row, or the
\* entry as it was when the row is gone; if id is not pooled but has a row,
\* performs add() and returns the connection iff the login succeeded, otherwise
\* absent; if id is in neither, returns absent and leaves the pool unchanged.
C18_GetConnectionById ==
    last.op = "get_connection_by_server_id" =>
        /\ last.was_pooled =>
              /\ last.conn # None
              /\ last.conn = PoolGet(_servers, last.id)
              /\ last.conn.api = PoolGet(last.pool_before, last.id).api
              /\ PoolIds(_servers) = PoolIds(last.pool_before)
              /\ last.id \in DOMAIN db_servers =>
                    ~SnapshotDiffers(last.conn.server, db_servers[last.id])
              /\ last.id \notin DOMAIN db_servers =>
                    last.conn = PoolGet(last.pool_before, last.id)
        /\ (~last.was_pooled /\ last.id \in DOMAIN db_servers) =>
              /\ last.conn # None <=> last.ok
              /\ last.ok => /\ last.conn = PoolGet(_servers, last.id)
                            /\ last.conn.server.online
                            /\ _servers = Append(last.pool_before, last.conn)
              /\ ~last.ok => _servers = last.pool_before
        /\ (~last.was_pooled /\ last.id \notin DOMAIN db_servers) =>
              /\ last.conn = None
              /\ _servers = last.pool_before

\* a lookup of a pooled server whose row had a new host: the connection keeps
\* its handle and carries the row
C18_Witness ==
    /\ last.op = "get_connection_by_server_id" /\ last.was_pooled
    /\ last.id \in DOMAIN db_servers
    /\ PoolGet(last.pool_before, last.id).server.host # db_servers[last.id].host
    /\ last.conn.server = db_servers[last.id]
    /\ last.conn.api.host # last.conn.server.host


\* the lookup that get_connection made on the server pooled i-th found the user
LookupHit(i) ==
    /\ last.pool_before[i].id \in last.find_ok
    /\ HasClient(panel, last.pool_before[i].id, last.u)

\* C19: getConnection(U) for a user without a primary server returns a
\* connection only to a pooled server on which the lookup of U hits, the first
\* such in pool order, and returns absent when the lookup hits on no pooled
\* server, in particular when no pooled server hosts U; it never returns a
\* server that does not host U.
C19_ConnectionHostsUser ==
    (last.op = "get_connection" /\ last.server_id = 0) =>
        /\ last.conn # None =>
              /\ last.conn = PoolGet(_servers, last.conn.id)
              /\ HasClient(panel, last.conn.id, last.u)
              /\ \E i \in 1..Len(last.pool_before) :
                    /\ last.pool_before[i].id = last.conn.id
                    /\ LookupHit(i)
                    /\ \A j \in 1..(i - 1) : ~LookupHit(j)
        /\ last.conn = None <=> \A i \in 1..Len(last.pool_before) : ~LookupHit(i)
        /\ (\A i \in 1..Len(last.pool_before) :
               ~HasClient(panel, last.pool_before[i].id, last.u)) => last.conn = None

\* the server pooled first answered and does not host the user: the connection
\* returned is the one pooled second
C19_Witness ==
    /\ last.op = "get_connection" /\ last.server_id = 0
    /\ Len(last.pool_before) >= 2
    /\ last.pool_before[1].id \in last.find_ok
    /\ ~HasClient(panel, last.pool_before[1].id, last.u)
    /\ last.conn # None /\ last.conn.id = last.pool_before[2].id


\* C20: in every create or delete fan-out, a failed remote call on one pooled
\* server does not keep the step from being attempted on every other pooled
\* server, and the operation reports success (createClient returns a user,
\* deleteClient returns true) iff the step succeeded on at least one server; for
\* delete, a server on which the user has no entry counts as a success.
C20_FanOutSuccessPolicy ==
    last.op \in {"create", "delete"} =>
        /\ last.attempted = PoolIds(_servers)
        /\ (IF last.op = "create" THEN last.user # None ELSE last.ok) <=> last.succeeded # {}
        /\ last.op = "delete" => (last.attempted \ last.hosts_before) \subseteq last.succeeded


C26_NoSessionAcrossRemoteCalls ==
    (tasks # NoTasks /\ tasks[1].op \in FanOuts /\ tasks[1].stack # <<>>) =>
        (Statement(tasks[1]).k = "remote" => OpenSessions(tasks[1]) = 0)

\* C27: every database session that an operation of the pool or of the VPN
\* service opens itself is released by the time the operation is over, on
\* every exit path: return, early return, caught failure, propagated exception.
C27_SessionsReleased ==
    (tasks # NoTasks /\ tasks[1].stack = <<>>) => OpenSessions(tasks[1]) = 0

\* activate_promocode is over because a call on its session failed inside the
\* with block and nothing caught the exception
C27_Witness ==
    /\ tasks # NoTasks /\ tasks[1].stack = <<>>
    /\ tasks[1].op = "activate_promocode" /\ tasks[1].escaped = "db"
    /\ last.op = "unwind" /\ last.f = "activate_promocode" /\ ~last.caught


\* C24: overlapping sync passes do not interleave their changes of the pool: a
\* pass evicts or inserts only when no other pass that has already evicted or
\* inserted is still unfinished
C24_OnePassMutates ==
    (last.op \in {"insert", "evict"} /\ tasks[last.t].op = "sync_servers") =>
        last.overlap = {}

\* C25: an insertion for a server id finds no Connection for that id in the
\* pool, so a Connection handed to a caller is not replaced while pooled
C25_OneConnectionPerId ==
    last.op = "insert" => last.replaced = None


\* C22: a stored user always has a subscription identifier, whatever creates,
\* updates, deletes and sync passes have run; a delete that removed an entry
\* leaves the user with an identifier that differs from the previous one and is
\* carried by no entry on any panel
C22_VpnIdNeverNull ==
    /\ \A u \in DOMAIN db_users : db_users[u].vpn_id # 0
    /\ (last.op = "delete" /\ last.ok /\ last.u \in DOMAIN db_users) =>
          /\ db_users[last.u].vpn_id # last.before.vpn_id
          /\ \A s \in ServerIds : \A v \in DOMAIN panel[s].clients :
                panel[s].clients[v].sub_id # db_users[last.u].vpn_id

C22_Witness ==
    /\ last.op = "delete" /\ last.ok
    /\ last.u \in DOMAIN db_users
    /\ last.before.vpn_id > MaxUsers
    /\ last.before.server_id # 0
    /\ db_users[last.u].server_id = 0


\* C23: when a create or update reached some pooled servers and failed on
\* others, and the next thing to happen is a sync pass in which every login,
\* list and write call succeeds, then after the pass the user has an entry on
\* every server the fan-out failed on that is pooled and has an inbound
C23_SyncHealsPartialFanOut ==
    [][ ( /\ last.op \in {"create", "update"}
          /\ last.succeeded # {}
          /\ last.u \in DOMAIN db_users
          /\ db_users[last.u].vpn_id # 0
          /\ last'.op = "sync"
          /\ last'.logins = ServerIds
          /\ last'.list_ok = ServerIds
          /\ last'.write_ok = ServerIds )
        => \A s \in (last.attempted \ last.succeeded) \cap PoolIds(_servers') :
              panel[s].inbounds > 0 => HasClient(panel', s, last.u) ]_vars


\* the configuration of the entry of u on s in a panel, or the empty template
\* an update starts from when there is none
EntryOrTemplate(pnl, s, u) ==
    IF HasClient(pnl, s, u) THEN ConfigOf(pnl[s].clients[u]) ELSE Client(0, TRUE, 0, 0)

\* C28 as stated: updateClient tries every pooled server; a server that
\* accepted holds the mutation applied to its previous entry, or to the empty
\* template, under the stored identifier, and the others are left as they were;
\* the call returns true iff a server accepted; and when every remote call
\* succeeds the user has an entry on every pooled server
C28_UpdateReachesEveryServer ==
    last.op = "update" =>
        /\ last.attempted = PoolIds(last.pool_before)
        /\ last.ok <=> last.succeeded # {}
        /\ \A s \in ServerIds \ last.succeeded : panel[s] = last.panel_before[s]
        /\ \A s \in last.succeeded :
              /\ HasClient(panel, s, last.u)
              /\ ConfigOf(panel[s].clients[last.u]) =
                    update_payload_func(last.kwargs, db_users[last.u],
                                        EntryOrTemplate(last.panel_before, s, last.u))
              /\ panel[s].clients[last.u].sub_id = db_users[last.u].vpn_id
        /\ last.reachable = ServerIds =>
              \A s \in PoolIds(_servers) : HasClient(panel, s, last.u)

\* C28 as amended: the same, with an entry on every pooled server that has an
\* inbound when every remote call succeeds
C28_UpdateReachesEveryInbound ==
    last.op = "update" =>
        /\ last.attempted = PoolIds(last.pool_before)
        /\ last.ok <=> last.succeeded # {}
        /\ \A s \in ServerIds \ last.succeeded : panel[s] = last.panel_before[s]
        /\ \A s \in last.succeeded :
              /\ HasClient(panel, s, last.u)
              /\ ConfigOf(panel[s].clients[last.u]) =
                    update_payload_func(last.kwargs, db_users[last.u],
                                        EntryOrTemplate(last.panel_before, s, last.u))
              /\ panel[s].clients[last.u].sub_id = db_users[last.u].vpn_id
        /\ last.reachable = ServerIds =>
              \A s \in PoolIds(_servers) : panel[s].inbounds > 0 => HasClient(panel, s, last.u)

\* an update that changed the entry on one server and created it on another
C28_Witness ==
    /\ last.op = "update" /\ last.ok /\ last.reachable = ServerIds
    /\ \E s, t \in last.succeeded :
          /\ HasClient(last.panel_before, s, last.u)
          /\ panel[s] # last.panel_before[s]
          /\ ~HasClient(last.panel_before, t, last.u)
          /\ HasClient(panel, t, last.u)

\* the expiry of the entry of the updated user on server s before the update (0
\* when there was none) and after it
ExpiryBefore(s) == EntryOrTemplate(last.panel_before, s, last.u).expiry_time

ExpiryAfter(s) == panel[s].clients[last.u].expiry_time

\* C29: on every server that accepted an update with a duration: 0 gives
\* expiry 0; d > 0 gives base + d, base being now on replace and otherwise the
\* later of now and the previous expiry, an expiry of 0 counting as now, so
\* that a non-replace extension never ends before a previous non-zero expiry;
\* a negative duration leaves the expiry as it was
C29_ExpiryRule ==
    (last.op = "update" /\ "duration" \in DOMAIN last.kwargs) =>
        \A s \in last.succeeded :
           LET d == last.kwargs.duration
               replace == "replace_duration" \in DOMAIN last.kwargs /\ last.kwargs.replace_duration
               current == IF ExpiryBefore(s) = 0 THEN Now ELSE ExpiryBefore(s)
               base == IF replace THEN Now ELSE IF current > Now THEN current ELSE Now
           IN /\ d = 0 => ExpiryAfter(s) = 0
              /\ d > 0 => ExpiryAfter(s) = base + d
              /\ (d > 0 /\ ~replace /\ ExpiryBefore(s) # 0) => ExpiryAfter(s) >= ExpiryBefore(s)
              /\ d < 0 => ExpiryAfter(s) = ExpiryBefore(s)

\* a non-replace extension of an entry whose expiry is still to come
C29_Witness ==
    /\ last.op = "update" /\ "duration" \in DOMAIN last.kwargs
    /\ last.kwargs.duration > 0
    /\ "replace_duration" \notin DOMAIN last.kwargs
    /\ \E s \in last.succeeded : ExpiryBefore(s) > Now /\ ExpiryAfter(s) = ExpiryBefore(s) + 1


\* the positions in the pool of the servers the last aggregation read and that
\* list a stat record of the user
HostPositions ==
    { i \in 1..Len(_servers) : Readable(_servers[i].id) /\ HasStat(panel, _servers[i].id, last.u) }

RECURSIVE UsedOn(_)
UsedOn(positions) ==
    IF positions = {} THEN 0
    ELSE LET i == CHOOSE j \in positions : TRUE
             stat == panel[_servers[i].id].clients[last.u]
         IN stat.up + stat.down + UsedOn(positions \ {i})

EnsuredAgain ==
    ensure_client_exists_on_server(_servers, db_servers, panel, UserObject(last.u), last.s, OkEnv)

ReplayData(u, n) ==
    \E m \in PoolIds(_servers) \ {n} :
        /\ PoolGet(_servers, m).server.online
        /\ last.env[m].list
        /\ HasStat(last.panel_before, m, u)

\* C32: the replay of a pass accounts for every pair of a user and a newly
\* added server, whatever failed on the way: a pair is processed, or failed,
\* or belongs to a user skipped for want of data; and every pair whose own
\* calls succeed gets its entry although other pairs failed
C32_ReplayGoesOn ==
    last.op = "sync_replay" =>
        /\ last.processed_count + last.failed_count
              + last.skipped_count * Cardinality(last.newly_added)
           = Cardinality(ReplayUsers) * Cardinality(last.newly_added)
        /\ \A n \in last.newly_added : \A u \in ReplayUsers :
              ( /\ ReplayData(u, n)
                /\ last.env[n] = AllOk
                /\ panel[n].inbounds > 0 ) => HasClient(panel, n, u)

\* a pass that skipped the first user for want of data and still gave the
\* second user an entry on a new server
C32_Witness ==
    /\ last.op = "sync_replay"
    /\ last.skipped_count > 0 /\ last.processed_count > 0
    /\ \A s \in ServerIds : ~HasClient(panel, s, 1)
    /\ \E n \in last.newly_added :
          /\ ~HasClient(last.panel_before, n, 2)
          /\ HasClient(panel, n, 2)


\* C33: an activation that returns false has changed no entry on any panel
C33_FailedActivationLeavesNoEntry ==
    (last.op = "activate_promocode" /\ ~last.ok) => ~last.panel_changed


\* C34: after deleteClient(U) returned true and replaced the stored
\* subscription identifier of U, no pooled server holds an entry labelled with U
C34_DeleteLeavesNoEntry ==
    ( /\ last.op = "delete" /\ last.ok
      /\ last.u \in DOMAIN db_users
      /\ db_users[last.u].vpn_id # last.before.vpn_id )
    => \A s \in PoolIds(_servers) : ~HasClient(panel, s, last.u)


\* the first server in pool order on which the last fan-out succeeded
FirstSucceeded ==
    _servers[CHOOSE i \in 1..Len(_servers) :
                /\ _servers[i].id \in last.succeeded
                /\ \A j \in 1..(i - 1) : _servers[j].id \notin last.succeeded].id

\* C35: after createClient(U) returned a user, the row of U is that user, its
\* server_id is the first server in pool order on which the fan-out succeeded,
\* that server holds an entry of U, and the stored subscription identifier is
\* the sub_id of that entry
C35_CreateStoresPrimary ==
    (last.op = "create" /\ last.user # None) =>
        /\ last.succeeded # {}
        /\ last.u \in DOMAIN db_users
        /\ db_users[last.u] = last.user
        /\ db_users[last.u].server_id = FirstSucceeded
        /\ HasClient(panel, FirstSucceeded, last.u)
        /\ db_users[last.u].vpn_id = panel[FirstSucceeded].clients[last.u].sub_id

\* a create that succeeded on two servers, the one with the higher id first in
\* the pool
C35_Witness ==
    /\ last.op = "create" /\ last.user # None
    /\ Cardinality(last.succeeded) >= 2
    /\ \E s \in last.succeeded : s < FirstSucceeded


\* the operations that take a session argument and use it where one is given
SessionUsers ==
    {"get_available_server", "get_available_server_by_location", "get_available_servers",
     "get_connection_by_server_id", "is_client_exists", "get_client_data",
     "assign_server_to_user"}

\* C36: an operation that was given a session by its caller leaves it open when
\* it returns: no operation closes a session it did not open
C36_GivenSessionLeftOpen ==
    (tasks # NoTasks /\ tasks[1].op \in SessionUsers /\ tasks[1].stack = <<>>) =>
        ~tasks[1].given_closed


\* the server the last step pooled online through get_connection_by_server_id
LazilyAdded ==
    IF /\ last.op = "get_connection_by_server_id"
       /\ ~last.was_pooled
       /\ last.conn # None
       /\ last.conn.server.online
    THEN {last.id} ELSE {}

\* C37: a server that entered the pool online, through the add step of a pass
\* or through the lookup by id just before it, holds after the pass (every
\* login, list and write call of which succeeds) an entry of every stored user
\* with a subscription identifier whose data another online pooled server
\* lists, provided it has an inbound to hold the entry
C37_EveryOnlineEntrantConverges ==
    [][ ( /\ last'.op = "sync"
          /\ last'.logins = ServerIds
          /\ last'.list_ok = ServerIds
          /\ last'.write_ok = ServerIds )
        => \A s \in LazilyAdded \cup
                    { n \in last'.newly_added : PoolGet(_servers', n).server.online } :
             \A u \in DOMAIN db_users :
                ( /\ db_users[u].vpn_id # 0
                  /\ panel[s].inbounds > 0
                  /\ \E m \in PoolIds(_servers') \ {s} :
                        /\ PoolGet(_servers', m).server.online
                        /\ HasStat(panel, m, u) )
                => HasClient(panel', s, u) ]_vars


\* C38: a server with a row that was offline when a pass started, kept in the
\* pool by a failed refresh or left out of it by a failed add, and whose login
\* succeeds in the pass, is pooled and marked online in the pool and in the
\* database when the pass is over
C38_OfflineServerRecovers ==
    last.op = "sync_recover" =>
        \A s \in last.offline_before \cap last.logins :
            /\ s \in PoolIds(_servers)
            /\ PoolGet(_servers, s).server.online
            /\ s \in DOMAIN db_servers
            /\ db_servers[s].online

\* a pass that brought back one server that was pooled offline and one that
\* was not pooled
C38_Witness ==
    /\ last.op = "sync_recover"
    /\ \E s \in last.offline_before \cap last.logins : s \in last.pooled_before
    /\ \E s \in last.offline_before \cap last.logins : s \notin last.pooled_before
    /\ \A s \in last.offline_before \cap last.logins :
          PoolGet(_servers, s).server.online /\ db_servers[s].online


\* C39: between operations, every pooled server that has a row carries in its
\* snapshot the online flag the row stores
C39_PoolAndRowsAgreeOnline ==
    \A s \in PoolIds(_servers) \cap DOMAIN db_servers :
        PoolGet(_servers, s).server.online = db_servers[s].online

\* a refresh whose login failed on a pooled server stored as online: the
\* snapshot and the row are both offline now, and the server is still pooled
C39_Witness ==
    /\ last.op = "refresh" /\ ~last.ok /\ last.was_pooled
    /\ last.stored = <<TRUE>>
    /\ last.id \in PoolIds(_servers)
    /\ ~PoolGet(_servers, last.id).server.online
    /\ ~db_servers[last.id].online

====
